---- MODULE Spec2Model ----
(***************************************************************************)
(* Model of the analytical core of src/app.js (class FitnessTrainer):      *)
(* landmark smoothing, joint-angle geometry, the push-up / squat / plank   *)
(* analyzers, the two repetition state machines and the plank timer,       *)
(* together with the handlers that drive them (start, pause, reset,        *)
(* exercise-card click, the 100 ms interval callback, the processVideo     *)
(* loop and the pose-results callback).                                    *)
(*                                                                         *)
(* Number representation.  JavaScript numbers are IEEE doubles; the model  *)
(* uses fixed point:                                                       *)
(*   - landmark coordinates and visibility: thousandths (0.03 is 30),      *)
(*   - angles: tenths of a degree (120 degrees is 1200),                   *)
(*   - times: milliseconds, stats.planks: milliseconds (the code stores    *)
(*     plankElapsedTime / 1000, a float number of seconds; the model keeps *)
(*     the same quantity in thousandths of a second),                      *)
(*   - NaN (the result of 0/0 in calculateAngle) is the value NaN, with    *)
(*     every comparison involving it false and arithmetic propagating it.  *)
(* JavaScript null is the value Null for numeric fields and the empty      *)
(* sequence for previousPoseData.                                          *)
(***************************************************************************)
EXTENDS Integers, Sequences, FiniteSets, TLC

VARIABLES
    \* AuthSystem
    authenticated,        \* auth.currentUser !== null
    statsPushups,         \* stored stats.pushups of the user
    statsSquats,          \* stored stats.squats
    statsPlanks,          \* stored stats.planks (thousandths of a second)
    \* FitnessTrainer session state
    isRunning, isPaused, currentExercise,
    pushUpCount, pushUpState, squatCount, squatState,
    plankStartTime, plankElapsedTime, plankPauseTime, plankLastPauseStart,
    plankTimerInterval,   \* TRUE iff a setInterval handle is stored
    plankFormValid, plankTimeSaved,
    baselineShoulderY, baselineHipY, baselineHipYSquat,
    previousPoseData,     \* << >> (null) or <<frame>>
    statusText, feedbackText,   \* statusEl / feedbackEl text (provideFeedback)
    \* environment
    now,                  \* Date.now()
    pending,              \* a pose.send() is awaiting its onResults callback
    \* history variables (not program state)
    framesSent,           \* number of pose.send() calls so far
    validMs,              \* wall-clock ms since plankStartTime with form valid, running, not paused
    flushDue,             \* sum of plankElapsedTime held at each reset() made while logged in
    statsWrites,          \* number of additions to stats.planks
    saveCalls,            \* number of direct savePlankTime() calls (SpecFlush)
    scheduledIntervals,   \* number of setInterval timers started and not cleared
    trace                 \* what the analyzer saw, frame by frame (scenario specifications)

vars == << authenticated, statsPushups, statsSquats, statsPlanks,
           isRunning, isPaused, currentExercise,
           pushUpCount, pushUpState, squatCount, squatState,
           plankStartTime, plankElapsedTime, plankPauseTime, plankLastPauseStart,
           plankTimerInterval, scheduledIntervals, plankFormValid, plankTimeSaved,
           baselineShoulderY, baselineHipY, baselineHipYSquat,
           previousPoseData, statusText, feedbackText,
           now, pending, framesSent, validMs, flushDue, statsWrites, saveCalls, trace >>

(***************************************************************************)
(* Bounds of the model.                                                    *)
(***************************************************************************)
\* the clock advances in steps of ClockStepMs, at most MaxClockSteps times
ClockStepMs == 1000
MaxClockSteps == 4
\* at most MaxFrames frames are sent to the pose estimator in a run
MaxFrames == 3

\* frames sent in a repetition scenario (one calibrates, five make the movement)
MaxScenarioFrames == 6

\* calls of savePlankTime() made in a row
MaxSaveCalls == 2

\* frames sent in the occlusion scenario
MaxOccludedFrames == 3

\* frames sent in the coinciding-keypoints scenario
MaxCoincidingFrames == 2

\* frames sent in the smoothing scenario
MaxSmoothingFrames == 3

\* frames sent in the push-up form scenario
MaxFormFrames == 3

\* frames sent in the push-up phase scenario
MaxPhaseFrames == 4

\* frames sent in the squat form scenario
MaxSquatFormFrames == 4

\* frames sent in the plank form scenario
MaxPlankFormFrames == 3

(***************************************************************************)
(* Program constants.                                                      *)
(***************************************************************************)
Null == -1000000
NaN == -9999
\* this.smoothingFactor = 0.7, in tenths
smoothingFactor == 7
\* thresholds of the constructor, degrees and thousandths of frame height
ELBOW_ANGLE_THRESHOLD == 120
SYMMETRY_THRESHOLD == 15
MIN_SHOULDER_DROP == 20
SQUAT_KNEE_ANGLE_THRESHOLD == 120
SQUAT_HIP_DROP_THRESHOLD == 150
\* visibility > 0.5
VisibilityThreshold == 500

(***************************************************************************)
(* Numbers: NaN-aware arithmetic and comparisons on angles.                *)
(***************************************************************************)
Abs(n) == IF n < 0 THEN -n ELSE n

Max(a, b) == IF a > b THEN a ELSE b

\* degrees -> tenths of a degree
Deg(d) == d * 10

\* JavaScript a < b and a > b: false when an operand is NaN
Lt(a, b) == a # NaN /\ b # NaN /\ a < b

Gt(a, b) == a # NaN /\ b # NaN /\ a > b

\* JavaScript a + b and Math.abs(a - b): NaN when an operand is NaN
NumAdd(a, b) == IF a = NaN \/ b = NaN THEN NaN ELSE a + b

NumAbsDiff(a, b) == IF a = NaN \/ b = NaN THEN NaN ELSE Abs(a - b)

\* The element of a one-element set.  The(\{e(v) : v \in \{d\}\}) is e(d) with
\* d evaluated once, where LET v == d IN e(v) evaluates d at every use of v.
The(S) == CHOOSE v \in S : TRUE

\* Math.sqrt on naturals: the integer square root, by bisection on [lo, hi)
RECURSIVE SqrtIn(_, _, _)
SqrtIn(n, lo, hi) ==
    IF hi - lo <= 1 THEN lo
    ELSE The({ IF mid * mid <= n THEN SqrtIn(n, mid, hi) ELSE SqrtIn(n, lo, mid) :
               mid \in {(lo + hi) \div 2} })

Sqrt(n) == SqrtIn(n, 0, 46341)

\* cos(d degrees) * 10000 for d = 0..90, CosTab[d + 1]
CosTab ==
    << 10000, 9998, 9994, 9986, 9976, 9962, 9945, 9925, 9903, 9877,
       9848, 9816, 9781, 9744, 9703, 9659, 9613, 9563, 9511, 9455,
       9397, 9336, 9272, 9205, 9135, 9063, 8988, 8910, 8829, 8746,
       8660, 8572, 8480, 8387, 8290, 8192, 8090, 7986, 7880, 7771,
       7660, 7547, 7431, 7314, 7193, 7071, 6947, 6820, 6691, 6561,
       6428, 6293, 6157, 6018, 5878, 5736, 5592, 5446, 5299, 5150,
       5000, 4848, 4695, 4540, 4384, 4226, 4067, 3907, 3746, 3584,
       3420, 3256, 3090, 2924, 2756, 2588, 2419, 2250, 2079, 1908,
       1736, 1564, 1392, 1219, 1045, 872, 698, 523, 349, 175, 0 >>

\* the degree d in lo..hi-1 with cos(d) >= c > cos(d+1), for 0 < c <= 10000
RECURSIVE AcosIn(_, _, _)
AcosIn(c, lo, hi) ==
    IF hi - lo <= 1 THEN lo
    ELSE The({ IF CosTab[mid + 1] >= c THEN AcosIn(c, mid, hi) ELSE AcosIn(c, lo, mid) :
               mid \in {(lo + hi) \div 2} })

\* Math.acos(c) * (180 / Math.PI) for c in [0, 1] (c in ten-thousandths),
\* in tenths of a degree, interpolating linearly between whole degrees
AcosPos(c) ==
    IF c <= 0 THEN 900
    ELSE The({ 10 * d + (10 * (CosTab[d + 1] - c)) \div (CosTab[d + 1] - CosTab[d + 2]) :
               d \in {AcosIn(c, 0, 90)} })

\* Math.acos(Math.max(-1, Math.min(1, c))) * (180 / Math.PI), tenths of a degree
AcosDeg(c) ==
    IF c >= 10000 THEN 0
    ELSE IF c <= -10000 THEN 1800
    ELSE IF c >= 0 THEN AcosPos(c)
    ELSE 1800 - AcosPos(-c)

(***************************************************************************)
(* calculateAngle(point1, point2, point3): the angle at point2.            *)
(***************************************************************************)
\* dotProduct / (magnitude1 * magnitude2) in ten-thousandths, the magnitudes
\* being in ten-thousandths (one more digit than the coordinates)
CosAngle(dotProduct, magnitude1, magnitude2) ==
    The({ IF dotProduct < 0 THEN -cosAbs ELSE cosAbs :
          cosAbs \in {(((Abs(dotProduct) * 100) \div magnitude1) * 10000) \div magnitude2} })

calculateAngle(point1, point2, point3) ==
    The({ IF magnitude1 = 0 \/ magnitude2 = 0
          THEN NaN    \* 0 / 0 is NaN, and Math.acos(NaN) is NaN
          ELSE The({ AcosDeg(cosAngle) :
                     cosAngle \in {CosAngle(dotProduct, magnitude1, magnitude2)} }) :
          dotProduct \in {(point1.x - point2.x) * (point3.x - point2.x)
                           + (point1.y - point2.y) * (point3.y - point2.y)},
          magnitude1 \in {Sqrt(((point1.x - point2.x) * (point1.x - point2.x)
                                + (point1.y - point2.y) * (point1.y - point2.y)) * 100)},
          magnitude2 \in {Sqrt(((point3.x - point2.x) * (point3.x - point2.x)
                                + (point3.y - point2.y) * (point3.y - point2.y)) * 100)} })

(***************************************************************************)
(* Frames.  A frame maps the landmark indices the analyzers read (MediaPipe *)
(* numbering: shoulders 11/12, elbows 13/14, wrists 15/16, hips 23/24,     *)
(* knees 25/26, ankles 27/28) to keypoints [x, y, z, visibility].  The     *)
(* other 21 keypoints of a frame are only drawn.                           *)
(***************************************************************************)
LandmarkIndices == {11, 12, 13, 14, 15, 16, 23, 24, 25, 26, 27, 28}

KP(px, py, pv) == [x |-> px, y |-> py, z |-> 0, visibility |-> pv]

\* average of two numbers, kept exact in half units (twice the value)
Avg(a, b) == NumAdd(a, b)

\* a threshold t expressed in the half units of Avg
Half(t) == 2 * t

(***************************************************************************)
(* smoothPoseData(landmarks), with the store of drawSkeleton (line 930):   *)
(* the first frame is returned as supplied; later ones are blended with    *)
(* previousPoseData, visibility passing through.  As in floating point,    *)
(* each of the two products is rounded to the nearest representable number *)
(* (here a thousandth) before they are added.                              *)
(***************************************************************************)
\* tenths rounded to the nearest unit
RoundTenths(n) == (n + 5) \div 10

\* a blend that leaves out the factor (1 - this.smoothingFactor)
BlendAddsPrevious(raw, prev) ==
    raw + RoundTenths(prev * smoothingFactor)

\* lm.x * (1 - this.smoothingFactor) + prev.x * this.smoothingFactor
Blend(raw, prev) ==
    RoundTenths(raw * (10 - smoothingFactor)) + RoundTenths(prev * smoothingFactor)

\* a smoothing that keeps the visibility of the stored frame
smoothPoseDataKeepsVisibility(landmarks) ==
    IF previousPoseData = << >>
    THEN landmarks
    ELSE LET prev == previousPoseData[1]
         IN  [i \in LandmarkIndices |->
                [x |-> Blend(landmarks[i].x, prev[i].x),
                 y |-> Blend(landmarks[i].y, prev[i].y),
                 z |-> Blend(landmarks[i].z, prev[i].z),
                 visibility |-> prev[i].visibility]]

smoothPoseData(landmarks) ==
    IF previousPoseData = << >>
    THEN landmarks
    ELSE LET prev == previousPoseData[1]
         IN  [i \in LandmarkIndices |->
                [x |-> Blend(landmarks[i].x, prev[i].x),
                 y |-> Blend(landmarks[i].y, prev[i].y),
                 z |-> Blend(landmarks[i].z, prev[i].z),
                 visibility |-> landmarks[i].visibility]]

(***************************************************************************)
(* analyzePushUp(landmarks).  The returned record is PushUpAnalysis; the   *)
(* baseline the call leaves behind is PushUpBaselineAfterAnalyze.  A frame *)
(* with a hidden arm keypoint returns only {isValid, reason}: the fields   *)
(* updatePushUpState destructures are then undefined, modelled as NaN      *)
(* (numbers) and FALSE (flags), which compare the same way.                *)
(***************************************************************************)
\* a visibility test that lets a keypoint at exactly 0.5 pass
VisibleFromThreshold(landmarks, indices) ==
    \A i \in indices : landmarks[i].visibility >= VisibilityThreshold

Visible(landmarks, indices) ==
    \A i \in indices : landmarks[i].visibility > VisibilityThreshold

PushUpAllVisible(landmarks) == Visible(landmarks, {11, 12, 13, 14, 15, 16})

BodyTilt(landmarks) ==
    Max(Abs(landmarks[11].y - landmarks[12].y), Abs(landmarks[23].y - landmarks[24].y))

PushUpMetrics(landmarks) ==
    The({ [leftAngle |-> leftAngle,
           rightAngle |-> rightAngle,
           avgAngle |-> Avg(leftAngle, rightAngle),
           angleDifference |-> NumAbsDiff(leftAngle, rightAngle),
           bodyTilt |-> BodyTilt(landmarks),
           avgShoulderY |-> avgShoulderY,
           avgHipY |-> avgHipY,
           bothArmsBent |-> Lt(leftAngle, Deg(ELBOW_ANGLE_THRESHOLD))
                            /\ Lt(rightAngle, Deg(ELBOW_ANGLE_THRESHOLD)),
           isSymmetric |-> Lt(NumAbsDiff(leftAngle, rightAngle), Deg(SYMMETRY_THRESHOLD)),
           isAligned |-> BodyTilt(landmarks) < 30,
           shouldersAboveHips |-> avgShoulderY - avgHipY < 0] :
          leftAngle \in {calculateAngle(landmarks[11], landmarks[13], landmarks[15])},
          rightAngle \in {calculateAngle(landmarks[12], landmarks[14], landmarks[16])},
          avgShoulderY \in {Avg(landmarks[11].y, landmarks[12].y)},
          avgHipY \in {Avg(landmarks[23].y, landmarks[24].y)} })

\* a calibration that does not look at the elbows
PushUpCalibratesAnyElbows(landmarks, m) ==
    /\ PushUpAllVisible(landmarks)
    /\ baselineShoulderY = Null
    /\ m.shouldersAboveHips
    /\ m.isAligned

\* lines 998-1006: the baseline is set once, from an aligned frame with the
\* shoulders above the hips and the arms mostly straight
PushUpCalibrates(landmarks, m) ==
    /\ PushUpAllVisible(landmarks)
    /\ baselineShoulderY = Null
    /\ m.shouldersAboveHips
    /\ m.isAligned
    /\ Gt(m.avgAngle, Half(Deg(140)))

PushUpBaselineAfterAnalyze(landmarks) ==
    The({ IF PushUpCalibrates(landmarks, m)
          THEN [shoulderY |-> m.avgShoulderY, hipY |-> m.avgHipY]
          ELSE [shoulderY |-> baselineShoulderY, hipY |-> baselineHipY] :
          m \in {PushUpMetrics(landmarks)} })

\* a verdict that tests symmetry before alignment
PushUpReasonSymmetryFirst(m) ==
    LET isInDownPhase == pushUpState = "DOWN"
    IN  IF ~m.shouldersAboveHips THEN "Keep your body higher"
        ELSE IF ~m.isSymmetric THEN "Work with both arms symmetrically"
        ELSE IF ~m.isAligned THEN "Keep your body straight"
        ELSE IF isInDownPhase /\ ~m.bothArmsBent THEN "Bend your arms more"
        ELSE IF ~isInDownPhase /\ Lt(m.avgAngle, Half(Deg(100)))
             THEN "Straighten your arms completely"
        ELSE ""

\* lines 1008-1028: the validity verdict, first failing check wins
PushUpReason(m) ==
    LET isInDownPhase == pushUpState = "DOWN"
    IN  IF ~m.shouldersAboveHips THEN "Keep your body higher"
        ELSE IF ~m.isAligned THEN "Keep your body straight"
        ELSE IF ~m.isSymmetric THEN "Work with both arms symmetrically"
        ELSE IF isInDownPhase /\ ~m.bothArmsBent THEN "Bend your arms more"
        ELSE IF ~isInDownPhase /\ Lt(m.avgAngle, Half(Deg(100)))
             THEN "Straighten your arms completely"
        ELSE ""

analyzePushUp(landmarks) ==
    IF ~PushUpAllVisible(landmarks)
    THEN [isValid |-> FALSE, reason |-> "Not all body parts visible",
          leftAngle |-> NaN, rightAngle |-> NaN, avgAngle |-> NaN,
          avgShoulderY |-> NaN, avgHipY |-> NaN,
          shouldersAboveHips |-> FALSE, isAligned |-> FALSE]
    ELSE The({ [isValid |-> PushUpReason(m) = "", reason |-> PushUpReason(m),
                leftAngle |-> m.leftAngle, rightAngle |-> m.rightAngle,
                avgAngle |-> m.avgAngle,
                avgShoulderY |-> m.avgShoulderY, avgHipY |-> m.avgHipY,
                shouldersAboveHips |-> m.shouldersAboveHips, isAligned |-> m.isAligned] :
               m \in {PushUpMetrics(landmarks)} })

(***************************************************************************)
(* updatePushUpState(analysis), given the baseline analyzePushUp left.     *)
(* The result holds the new phase, count and baseline, and whether a       *)
(* repetition was counted (the addExerciseCount('pushups', 1) call).       *)
(***************************************************************************)
\* an UP -> DOWN test that does not wait for a baseline
PushUpGoesDownWithoutBaseline(analysis, base) ==
    /\ analysis.shouldersAboveHips /\ analysis.isAligned
    /\ pushUpState = "UP"
    /\ Gt(NumAdd(analysis.avgShoulderY, -base.shoulderY), Half(MIN_SHOULDER_DROP * 2))
    /\ Lt(analysis.avgAngle, Half(Deg(ELBOW_ANGLE_THRESHOLD)))

\* an UP -> DOWN test that does not look at the elbows
PushUpGoesDownAnyElbows(analysis, base) ==
    /\ base.shoulderY # Null
    /\ analysis.shouldersAboveHips /\ analysis.isAligned
    /\ pushUpState = "UP"
    /\ Gt(NumAdd(analysis.avgShoulderY, -base.shoulderY), Half(MIN_SHOULDER_DROP * 2))

PushUpGoesDown(analysis, base) ==
    /\ base.shoulderY # Null
    /\ analysis.shouldersAboveHips /\ analysis.isAligned
    /\ pushUpState = "UP"
    /\ Gt(NumAdd(analysis.avgShoulderY, -base.shoulderY), Half(MIN_SHOULDER_DROP * 2))
    /\ Lt(analysis.avgAngle, Half(Deg(ELBOW_ANGLE_THRESHOLD)))

\* a DOWN -> UP test with upThreshold = MIN_SHOULDER_DROP * 0.25
PushUpGoesUpQuarterDrop(analysis, base) ==
    /\ base.shoulderY # Null
    /\ analysis.shouldersAboveHips /\ analysis.isAligned
    /\ pushUpState = "DOWN"
    /\ Lt(NumAdd(analysis.avgShoulderY, -base.shoulderY), Half(MIN_SHOULDER_DROP) \div 4)
    /\ Gt(analysis.avgAngle, Half(Deg(110)))

\* upThreshold = MIN_SHOULDER_DROP * 0.5
PushUpGoesUp(analysis, base) ==
    /\ base.shoulderY # Null
    /\ analysis.shouldersAboveHips /\ analysis.isAligned
    /\ pushUpState = "DOWN"
    /\ Lt(NumAdd(analysis.avgShoulderY, -base.shoulderY), Half(MIN_SHOULDER_DROP) \div 2)
    /\ Gt(analysis.avgAngle, Half(Deg(110)))

\* an updatePushUpState that completes a repetition only on a valid frame
updatePushUpStateValidOnly(analysis, base) ==
    IF PushUpGoesDown(analysis, base)
    THEN [state |-> "DOWN", count |-> pushUpCount, counted |-> FALSE,
          shoulderY |-> base.shoulderY, hipY |-> base.hipY]
    ELSE IF PushUpGoesUp(analysis, base) /\ analysis.isValid
    THEN [state |-> "UP", count |-> pushUpCount + 1, counted |-> TRUE,
          shoulderY |-> analysis.avgShoulderY, hipY |-> analysis.avgHipY]
    ELSE [state |-> pushUpState, count |-> pushUpCount, counted |-> FALSE,
          shoulderY |-> base.shoulderY, hipY |-> base.hipY]

\* an updatePushUpState that also counts the UP -> DOWN transition
updatePushUpStateCountsBothWays(analysis, base) ==
    IF PushUpGoesDown(analysis, base)
    THEN [state |-> "DOWN", count |-> pushUpCount + 1, counted |-> TRUE,
          shoulderY |-> base.shoulderY, hipY |-> base.hipY]
    ELSE IF PushUpGoesUp(analysis, base)
    THEN [state |-> "UP", count |-> pushUpCount + 1, counted |-> TRUE,
          shoulderY |-> analysis.avgShoulderY, hipY |-> analysis.avgHipY]
    ELSE [state |-> pushUpState, count |-> pushUpCount, counted |-> FALSE,
          shoulderY |-> base.shoulderY, hipY |-> base.hipY]

updatePushUpState(analysis, base) ==
    IF PushUpGoesDown(analysis, base)
    THEN [state |-> "DOWN", count |-> pushUpCount, counted |-> FALSE,
          shoulderY |-> base.shoulderY, hipY |-> base.hipY]
    ELSE IF PushUpGoesUp(analysis, base)
    THEN [state |-> "UP", count |-> pushUpCount + 1, counted |-> TRUE,
          shoulderY |-> analysis.avgShoulderY, hipY |-> analysis.avgHipY]
    ELSE [state |-> pushUpState, count |-> pushUpCount, counted |-> FALSE,
          shoulderY |-> base.shoulderY, hipY |-> base.hipY]

(***************************************************************************)
(* analyzeSquat(landmarks) and updateSquatState(analysis).                 *)
(***************************************************************************)
SquatAllVisible(landmarks) == Visible(landmarks, {23, 24, 25, 26, 27, 28})

SquatMetrics(landmarks) ==
    The({ [leftKneeAngle |-> leftKneeAngle,
           rightKneeAngle |-> rightKneeAngle,
           avgAngle |-> Avg(leftKneeAngle, rightKneeAngle),
           avgHipY |-> Avg(landmarks[23].y, landmarks[24].y),
           isSymmetric |-> Lt(NumAbsDiff(leftKneeAngle, rightKneeAngle), Deg(20))] :
          leftKneeAngle \in {calculateAngle(landmarks[23], landmarks[25], landmarks[27])},
          rightKneeAngle \in {calculateAngle(landmarks[24], landmarks[26], landmarks[28])} })

\* a calibration that runs on every standing frame
SquatBaselineAfterAnalyzeEveryStand(landmarks) ==
    IF SquatAllVisible(landmarks)
    THEN The({ IF Gt(m.avgAngle, Half(Deg(150))) THEN m.avgHipY ELSE baselineHipYSquat :
               m \in {SquatMetrics(landmarks)} })
    ELSE baselineHipYSquat

\* lines 1158-1164: the baseline is set once, from a standing frame
SquatBaselineAfterAnalyze(landmarks) ==
    IF SquatAllVisible(landmarks) /\ baselineHipYSquat = Null
    THEN The({ IF Gt(m.avgAngle, Half(Deg(150))) THEN m.avgHipY ELSE baselineHipYSquat :
               m \in {SquatMetrics(landmarks)} })
    ELSE baselineHipYSquat

\* a verdict that tests the knee angle before the balance of the legs
SquatReasonBalanceLast(m, baseline) ==
    IF baseline = Null THEN "Stand up straight to start"
    ELSE IF Lt(m.avgAngle, Half(Deg(SQUAT_KNEE_ANGLE_THRESHOLD)))
         THEN IF Gt(NumAdd(m.avgHipY, -baseline), Half(SQUAT_HIP_DROP_THRESHOLD))
              THEN ""
              ELSE "Go lower"
    ELSE IF Gt(m.avgAngle, Half(Deg(150))) THEN ""
    ELSE IF ~m.isSymmetric THEN "Keep both legs balanced"
    ELSE "Position yourself in view"

\* lines 1175-1192, with the baseline as the calibration above left it
SquatReason(m, baseline) ==
    IF baseline = Null THEN "Stand up straight to start"
    ELSE IF ~m.isSymmetric THEN "Keep both legs balanced"
    ELSE IF Lt(m.avgAngle, Half(Deg(SQUAT_KNEE_ANGLE_THRESHOLD)))
         THEN IF Gt(NumAdd(m.avgHipY, -baseline), Half(SQUAT_HIP_DROP_THRESHOLD))
              THEN ""
              ELSE "Go lower"
    ELSE IF Gt(m.avgAngle, Half(Deg(150))) THEN ""
    ELSE "Position yourself in view"

analyzeSquat(landmarks) ==
    IF ~SquatAllVisible(landmarks)
    THEN [isValid |-> FALSE, reason |-> "Not all body parts visible",
          avgAngle |-> NaN, avgHipY |-> NaN, isSymmetric |-> FALSE]
    ELSE The({ [isValid |-> SquatReason(m, baseline) = "",
                reason |-> SquatReason(m, baseline),
                avgAngle |-> m.avgAngle, avgHipY |-> m.avgHipY,
                isSymmetric |-> m.isSymmetric] :
               m \in {SquatMetrics(landmarks)},
               baseline \in {SquatBaselineAfterAnalyze(landmarks)} })

\* an UP -> DOWN test at 150 degrees
SquatGoesDownBelowStanding(analysis, baseline) ==
    /\ baseline # Null
    /\ squatState = "UP"
    /\ ~Gt(analysis.avgAngle, Half(Deg(150)))

SquatGoesDown(analysis, baseline) ==
    /\ baseline # Null
    /\ squatState = "UP"
    /\ Lt(analysis.avgAngle, Half(Deg(SQUAT_KNEE_ANGLE_THRESHOLD)))

\* a DOWN -> UP test that does not look at the phase
SquatGoesUpFromAnyPhase(analysis, baseline) ==
    /\ baseline # Null
    /\ Gt(analysis.avgAngle, Half(Deg(150)))

SquatGoesUp(analysis, baseline) ==
    /\ baseline # Null
    /\ squatState = "DOWN"
    /\ Gt(analysis.avgAngle, Half(Deg(150)))

\* an updateSquatState that steps the count down on DOWN -> UP
updateSquatStateCountsDown(analysis, baseline) ==
    IF SquatGoesDown(analysis, baseline)
    THEN [state |-> "DOWN", count |-> squatCount, counted |-> FALSE]
    ELSE IF SquatGoesUp(analysis, baseline)
    THEN [state |-> "UP", count |-> squatCount - 1, counted |-> TRUE]
    ELSE [state |-> squatState, count |-> squatCount, counted |-> FALSE]

updateSquatState(analysis, baseline) ==
    IF SquatGoesDown(analysis, baseline)
    THEN [state |-> "DOWN", count |-> squatCount, counted |-> FALSE]
    ELSE IF SquatGoesUp(analysis, baseline)
    THEN [state |-> "UP", count |-> squatCount + 1, counted |-> TRUE]
    ELSE [state |-> squatState, count |-> squatCount, counted |-> FALSE]

(***************************************************************************)
(* analyzePlank(landmarks).                                                *)
(***************************************************************************)
\* a visibility test that also asks for the ankles
PlankAllVisibleWithAnkles(landmarks) == Visible(landmarks, {11, 12, 23, 24, 27, 28})

PlankAllVisible(landmarks) == Visible(landmarks, {11, 12, 23, 24})

analyzePlank(landmarks) ==
    IF ~PlankAllVisible(landmarks)
    THEN [isValid |-> FALSE, reason |-> "Position yourself in view"]
    ELSE LET isAligned == BodyTilt(landmarks) < 30
             avgShoulderY == Avg(landmarks[11].y, landmarks[12].y)
             avgHipY == Avg(landmarks[23].y, landmarks[24].y)
             isHorizontal == Abs(avgShoulderY - avgHipY) < Half(200)
         IN  IF ~isAligned
             THEN [isValid |-> FALSE, reason |-> "Keep your body straight"]
             ELSE IF ~isHorizontal
             THEN [isValid |-> FALSE, reason |-> "Keep your body horizontal"]
             ELSE [isValid |-> TRUE, reason |-> ""]

(***************************************************************************)
(* provideFeedback(analysis): the status / feedback texts for an analysis  *)
(* that carries isValid.                                                   *)
(***************************************************************************)
provideFeedback(analysis) ==
    IF analysis.isValid
    THEN [status |-> "Correct", feedback |-> ""]
    ELSE [status |-> "Incorrect", feedback |-> analysis.reason]

(***************************************************************************)
(* The plank timer's helpers.                                              *)
(***************************************************************************)
\* savePlankTime() with this.currentExercise = exercise: whether the call adds
\* to the stats store
PlankSaveDue(exercise) ==
    /\ authenticated
    /\ plankElapsedTime > 0
    /\ exercise = "planks"
    /\ ~plankTimeSaved

\* a savePlankTime() that assigns the session's time instead of adding it
StatsPlanksAfterSaveAssigns(exercise) ==
    IF PlankSaveDue(exercise) THEN plankElapsedTime ELSE statsPlanks

\* stats.planks after savePlankTime()
StatsPlanksAfterSave(exercise) ==
    IF PlankSaveDue(exercise) THEN statsPlanks + plankElapsedTime ELSE statsPlanks

\* a savePlankTime() that does not raise plankTimeSaved
PlankTimeSavedAfterSaveKeepsFlag(exercise) == plankTimeSaved

\* plankTimeSaved after savePlankTime()
PlankTimeSavedAfterSave(exercise) ==
    IF PlankSaveDue(exercise) THEN TRUE ELSE plankTimeSaved

\* startPlankTimer(): a timer is started unless a handle is stored
IntervalsAfterStart ==
    IF plankTimerInterval THEN scheduledIntervals ELSE scheduledIntervals + 1

\* a stopPlankTimer() that drops the handle without clearInterval()
IntervalsAfterStopKeepsTimer == scheduledIntervals

\* stopPlankTimer(): the timer of the stored handle is cleared
IntervalsAfterStop ==
    IF plankTimerInterval THEN scheduledIntervals - 1 ELSE scheduledIntervals

\* a stopPlankTimerCounting() without the !plankLastPauseStart check: a pause
\* made while a pause interval is open restarts the interval
LastPauseStartAfterStopRestarts ==
    IF plankStartTime # Null THEN now ELSE plankLastPauseStart

\* stopPlankTimerCounting() and lines 678-680 of pause(): open a pause interval
LastPauseStartAfterStop ==
    IF plankLastPauseStart = Null /\ plankStartTime # Null
    THEN now
    ELSE plankLastPauseStart

\* a resumePlankTimerCounting() that measures the pause from plankStartTime
PauseTimeAfterResumeFromStart ==
    IF plankLastPauseStart # Null
    THEN plankPauseTime + (now - plankStartTime)
    ELSE plankPauseTime

\* a resumePlankTimerCounting() that assigns the pause interval instead of
\* adding it
PauseTimeAfterResumeAssigns ==
    IF plankLastPauseStart # Null
    THEN now - plankLastPauseStart
    ELSE plankPauseTime

\* resumePlankTimerCounting(): fold the open pause interval into plankPauseTime
PauseTimeAfterResume ==
    IF plankLastPauseStart # Null
    THEN plankPauseTime + (now - plankLastPauseStart)
    ELSE plankPauseTime

(***************************************************************************)
(* Input frames.  Body builds a frame of a body seen with the left side at *)
(* x = 0.4 and the right side at x = 0.6, wrists at y = 0.7 and ankles at  *)
(* y = 0.9: shoulders at height shY, hips at hipY, the elbows (knees)      *)
(* halfway between shoulder and wrist (hip and ankle), moved sideways by   *)
(* elDx (knDx), every keypoint with visibility vis.                        *)
(***************************************************************************)
Body(shY, elDx, hipY, knDx, vis) ==
    [i \in LandmarkIndices |->
        LET px == IF i \in {11, 13, 15, 23, 25, 27} THEN 400 ELSE 600
        IN  CASE i \in {11, 12} -> KP(px, shY, vis)
              [] i \in {13, 14} -> KP(px + elDx, (shY + 700) \div 2, vis)
              [] i \in {15, 16} -> KP(px, 700, vis)
              [] i \in {23, 24} -> KP(px, hipY, vis)
              [] i \in {25, 26} -> KP(px + knDx, (hipY + 900) \div 2, vis)
              [] OTHER -> KP(px, 900, vis)]

\* arms and legs straight, shoulders above hips, body level
TopFrame == Body(400, 0, 500, 0, 900)

\* shoulders and hips dropped, elbows and knees bent
BottomFrame == Body(540, 300, 700, 400, 900)

\* back up, past the top position (the smoothed frame is then near TopFrame)
RiseFrame == Body(300, -200, 400, -270, 900)

\* the top position with every keypoint below the visibility threshold
HiddenFrame == Body(400, 0, 500, 0, 300)

Frames == {TopFrame, BottomFrame, RiseFrame, HiddenFrame}

\* results.poseLandmarks is absent
NoLandmarks == << >>

Exercises == {"pushups", "squats", "planks"}

(***************************************************************************)
(* Initial state: the fields as the constructor leaves them.  A user is    *)
(* logged in or not (loadCurrentUser), with stats at their default; the    *)
(* login state stays as it is during the run.                              *)
(***************************************************************************)
InitSession ==
    /\ statsPushups = 0 /\ statsSquats = 0 /\ statsPlanks = 0
    /\ isRunning = FALSE /\ isPaused = FALSE
    /\ pushUpCount = 0 /\ pushUpState = "UP"
    /\ squatCount = 0 /\ squatState = "UP"
    /\ plankStartTime = Null /\ plankElapsedTime = 0
    /\ plankPauseTime = 0 /\ plankLastPauseStart = Null
    /\ plankTimerInterval = FALSE /\ scheduledIntervals = 0
    /\ plankFormValid = FALSE /\ plankTimeSaved = FALSE
    /\ baselineShoulderY = Null /\ baselineHipY = Null /\ baselineHipYSquat = Null
    /\ previousPoseData = << >>
    /\ statusText = "" /\ feedbackText = ""
    /\ now = ClockStepMs
    /\ pending = FALSE
    /\ framesSent = 0 /\ validMs = 0 /\ flushDue = 0
    /\ statsWrites = 0 /\ saveCalls = 0 /\ trace = << >>

Init ==
    /\ authenticated \in BOOLEAN
    /\ currentExercise = "pushups"
    /\ InitSession

authVars == << authenticated >>
statsVars == << statsPushups, statsSquats, statsPlanks, statsWrites >>
repVars == << pushUpCount, pushUpState, squatCount, squatState,
              baselineShoulderY, baselineHipY, baselineHipYSquat >>
plankVars == << plankStartTime, plankElapsedTime, plankPauseTime, plankLastPauseStart,
                plankTimerInterval, scheduledIntervals, plankFormValid, plankTimeSaved >>
uiVars == << statusText, feedbackText >>

(***************************************************************************)
(* start(): the start button, disabled by its first click (line 575).      *)
(***************************************************************************)
Start ==
    /\ ~isRunning
    /\ isRunning' = TRUE
    /\ isPaused' = FALSE
    /\ plankFormValid' = IF currentExercise = "planks" THEN FALSE ELSE plankFormValid
    /\ UNCHANGED << authVars, statsVars, currentExercise, repVars,
                    plankStartTime, plankElapsedTime, plankPauseTime, plankLastPauseStart,
                    plankTimerInterval, scheduledIntervals, plankTimeSaved,
                    previousPoseData, uiVars, now, pending, framesSent, validMs,
                    flushDue, saveCalls, trace >>

(***************************************************************************)
(* processVideo(): one turn of the requestAnimationFrame loop that start() *)
(* begins.  The loop exists once isRunning is set, and no handler clears   *)
(* isRunning, so the branch of lines 652-660 is never taken; a turn taken  *)
(* while paused changes nothing.  A turn that sends a frame waits for the  *)
(* results callback (await pose.send) before the next turn.                *)
(***************************************************************************)
ProcessVideoUpTo(limit) ==
    /\ isRunning
    /\ ~pending
    /\ ~isPaused
    /\ framesSent < limit
    /\ pending' = TRUE
    /\ framesSent' = framesSent + 1
    /\ UNCHANGED << authVars, statsVars, isRunning, isPaused, currentExercise, repVars,
                    plankVars, previousPoseData, uiVars, now, validMs,
                    flushDue, saveCalls, trace >>

ProcessVideo == ProcessVideoUpTo(MaxFrames)

(***************************************************************************)
(* The setInterval callback of startPlankTimer (lines 592-602).            *)
(***************************************************************************)
\* a callback that does not look at plankFormValid
TickRecomputesAnyForm ==
    /\ ~isPaused /\ isRunning
    /\ plankStartTime # Null

TickRecomputes ==
    /\ ~isPaused /\ isRunning
    /\ plankFormValid /\ plankStartTime # Null

Tick ==
    /\ plankTimerInterval
    /\ plankElapsedTime' =
          IF TickRecomputes
          THEN now - plankStartTime - plankPauseTime
          ELSE plankElapsedTime
    /\ UNCHANGED << authVars, statsVars, isRunning, isPaused, currentExercise, repVars,
                    plankStartTime, plankPauseTime, plankLastPauseStart,
                    plankTimerInterval, scheduledIntervals, plankFormValid, plankTimeSaved,
                    previousPoseData, uiVars, now, pending, framesSent, validMs,
                    flushDue, saveCalls, trace >>

(***************************************************************************)
(* pause(): the pause / resume button.                                     *)
(***************************************************************************)
\* a pause() whose resume adds the pause interval but leaves it open
PauseLeavesIntervalOpen ==
    /\ isPaused' = ~isPaused
    /\ IF currentExercise = "planks"
       THEN IF ~isPaused
            THEN /\ plankLastPauseStart' = LastPauseStartAfterStop
                 /\ UNCHANGED << plankPauseTime, plankTimerInterval, scheduledIntervals >>
            ELSE IF plankFormValid
            THEN /\ plankPauseTime' = PauseTimeAfterResume
                 /\ plankTimerInterval' = TRUE
                 /\ scheduledIntervals' = IntervalsAfterStart
                 /\ UNCHANGED plankLastPauseStart
            ELSE UNCHANGED << plankPauseTime, plankLastPauseStart, plankTimerInterval,
                            scheduledIntervals >>
       ELSE UNCHANGED << plankPauseTime, plankLastPauseStart, plankTimerInterval,
                            scheduledIntervals >>
    /\ UNCHANGED << authVars, statsVars, isRunning, currentExercise, repVars,
                    plankStartTime, plankElapsedTime, plankFormValid, plankTimeSaved,
                    previousPoseData, uiVars, now, pending, framesSent, validMs,
                    flushDue, saveCalls, trace >>

\* a pause() that treats pausing as a stop and calls savePlankTime()
PauseSavesPlankTime ==
    /\ isPaused' = ~isPaused
    /\ IF currentExercise = "planks"
       THEN IF ~isPaused
            THEN /\ plankLastPauseStart' = LastPauseStartAfterStop
                 /\ UNCHANGED << plankPauseTime, plankTimerInterval, scheduledIntervals >>
            ELSE IF plankFormValid
            THEN /\ plankPauseTime' = PauseTimeAfterResume
                 /\ plankLastPauseStart' = Null
                 /\ plankTimerInterval' = TRUE
                 /\ scheduledIntervals' = IntervalsAfterStart
            ELSE UNCHANGED << plankPauseTime, plankLastPauseStart, plankTimerInterval,
                            scheduledIntervals >>
       ELSE UNCHANGED << plankPauseTime, plankLastPauseStart, plankTimerInterval,
                            scheduledIntervals >>
    /\ statsPlanks' = IF ~isPaused THEN StatsPlanksAfterSave(currentExercise)
                      ELSE statsPlanks
    /\ statsWrites' = IF ~isPaused /\ PlankSaveDue(currentExercise)
                      THEN statsWrites + 1 ELSE statsWrites
    /\ plankTimeSaved' = IF ~isPaused THEN PlankTimeSavedAfterSave(currentExercise)
                         ELSE plankTimeSaved
    /\ UNCHANGED << authVars, statsPushups, statsSquats, isRunning, currentExercise,
                    repVars, plankStartTime, plankElapsedTime, plankFormValid,
                    previousPoseData, uiVars, now, pending, framesSent, validMs,
                    flushDue, saveCalls, trace >>

Pause ==
    /\ isPaused' = ~isPaused
    /\ IF currentExercise = "planks"
       THEN IF ~isPaused
            THEN \* now paused: open a pause interval
                 /\ plankLastPauseStart' = LastPauseStartAfterStop
                 /\ UNCHANGED << plankPauseTime, plankTimerInterval, scheduledIntervals >>
            ELSE IF plankFormValid
            THEN \* resumed with valid form
                 /\ plankPauseTime' = PauseTimeAfterResume
                 /\ plankLastPauseStart' = Null
                 /\ plankTimerInterval' = TRUE
                 /\ scheduledIntervals' = IntervalsAfterStart
            ELSE UNCHANGED << plankPauseTime, plankLastPauseStart, plankTimerInterval,
                            scheduledIntervals >>
       ELSE UNCHANGED << plankPauseTime, plankLastPauseStart, plankTimerInterval,
                            scheduledIntervals >>
    /\ UNCHANGED << authVars, statsVars, isRunning, currentExercise, repVars,
                    plankStartTime, plankElapsedTime, plankFormValid, plankTimeSaved,
                    previousPoseData, uiVars, now, pending, framesSent, validMs,
                    flushDue, saveCalls, trace >>

(***************************************************************************)
(* reset(), run with this.currentExercise = exercise: savePlankTime() if   *)
(* the exercise is planks, then every session field back to its initial    *)
(* value and the interval cleared (stopPlankTimer).                        *)
(***************************************************************************)
\* a reset() without the stopPlankTimer() call
ResetBodyKeepsInterval(exercise) ==
    /\ statsPlanks' = IF exercise = "planks" THEN StatsPlanksAfterSave(exercise)
                      ELSE statsPlanks
    /\ statsWrites' = IF exercise = "planks" /\ PlankSaveDue(exercise)
                      THEN statsWrites + 1 ELSE statsWrites
    /\ pushUpCount' = 0 /\ pushUpState' = "UP"
    /\ squatCount' = 0 /\ squatState' = "UP"
    /\ plankStartTime' = Null /\ plankElapsedTime' = 0
    /\ plankPauseTime' = 0 /\ plankLastPauseStart' = Null
    /\ plankFormValid' = FALSE /\ plankTimeSaved' = FALSE
    /\ UNCHANGED << plankTimerInterval, scheduledIntervals >>
    /\ statusText' = "" /\ feedbackText' = ""
    /\ previousPoseData' = << >>
    /\ baselineShoulderY' = Null /\ baselineHipY' = Null /\ baselineHipYSquat' = Null
    /\ flushDue' = IF authenticated THEN flushDue + plankElapsedTime ELSE flushDue
    /\ validMs' = 0
    /\ UNCHANGED << authVars, statsPushups, statsSquats, isRunning, isPaused,
                    now, pending, framesSent, saveCalls, trace >>

ResetBody(exercise) ==
    /\ statsPlanks' = IF exercise = "planks" THEN StatsPlanksAfterSave(exercise)
                      ELSE statsPlanks
    /\ statsWrites' = IF exercise = "planks" /\ PlankSaveDue(exercise)
                      THEN statsWrites + 1 ELSE statsWrites
    /\ pushUpCount' = 0 /\ pushUpState' = "UP"
    /\ squatCount' = 0 /\ squatState' = "UP"
    /\ plankStartTime' = Null /\ plankElapsedTime' = 0
    /\ plankPauseTime' = 0 /\ plankLastPauseStart' = Null
    /\ plankFormValid' = FALSE /\ plankTimeSaved' = FALSE
    /\ plankTimerInterval' = FALSE
    /\ scheduledIntervals' = IntervalsAfterStop
    /\ statusText' = "" /\ feedbackText' = ""
    /\ previousPoseData' = << >>
    /\ baselineShoulderY' = Null /\ baselineHipY' = Null /\ baselineHipYSquat' = Null
    /\ flushDue' = IF authenticated THEN flushDue + plankElapsedTime ELSE flushDue
    /\ validMs' = 0
    /\ UNCHANGED << authVars, statsPushups, statsSquats, isRunning, isPaused,
                    now, pending, framesSent, saveCalls, trace >>

\* the reset button
Reset ==
    /\ ResetBody(currentExercise)
    /\ UNCHANGED currentExercise

\* the click handler of an exercise card (lines 388-407): currentExercise is
\* assigned first, then reset() runs
SelectExercise(exercise) ==
    /\ currentExercise' = exercise
    /\ ResetBody(exercise)

(***************************************************************************)
(* The clock.  validMs follows the wall-clock time that passes while a     *)
(* started plank session has valid form, is running and is not paused.     *)
(***************************************************************************)
ClockAdvance ==
    /\ now < ClockStepMs * (MaxClockSteps + 1)
    /\ now' = now + ClockStepMs
    /\ validMs' = IF /\ plankStartTime # Null /\ plankFormValid
                     /\ isRunning /\ ~isPaused
                  THEN validMs + ClockStepMs
                  ELSE validMs
    /\ UNCHANGED << authVars, statsVars, isRunning, isPaused, currentExercise, repVars,
                    plankVars, previousPoseData, uiVars, pending, framesSent,
                    flushDue, saveCalls, trace >>

(***************************************************************************)
(* onPoseResults(results): the callback that ends a pose.send().           *)
(***************************************************************************)
\* a no-landmarks branch that also takes the plank form for lost
NoPoseResultsInvalidatesForm ==
    /\ statusText' = ""
    /\ plankFormValid' = FALSE
    /\ UNCHANGED << statsVars, repVars, plankStartTime, plankElapsedTime, plankPauseTime,
                    plankLastPauseStart, plankTimerInterval, scheduledIntervals,
                    plankTimeSaved, previousPoseData, feedbackText >>

\* lines 733-737: no landmarks, only the status text is cleared
NoPoseResults ==
    /\ statusText' = ""
    /\ UNCHANGED << statsVars, repVars, plankVars, previousPoseData, feedbackText >>

\* lines 746-753: the push-up branch
PushUpResults(smoothed) ==
    \E analysis \in {analyzePushUp(smoothed)},
       base \in {PushUpBaselineAfterAnalyze(smoothed)} :
    \E next \in {updatePushUpState(analysis, base)},
       fb \in {provideFeedback(analysis)} :
        /\ pushUpState' = next.state
        /\ pushUpCount' = next.count
        /\ baselineShoulderY' = next.shoulderY
        /\ baselineHipY' = next.hipY
        /\ statsPushups' = IF next.counted /\ authenticated
                           THEN statsPushups + 1 ELSE statsPushups
        /\ statusText' = fb.status
        /\ feedbackText' = fb.feedback
        /\ UNCHANGED << statsSquats, statsPlanks, statsWrites, squatCount, squatState,
                        baselineHipYSquat, plankVars >>

\* lines 764-773: the squat branch
SquatResults(smoothed) ==
    \E analysis \in {analyzeSquat(smoothed)},
       baseline \in {SquatBaselineAfterAnalyze(smoothed)} :
    \E next \in {updateSquatState(analysis, baseline)},
       fb \in {provideFeedback(analysis)} :
        /\ squatState' = next.state
        /\ squatCount' = next.count
        /\ baselineHipYSquat' = baseline
        /\ statsSquats' = IF next.counted /\ authenticated
                          THEN statsSquats + 1 ELSE statsSquats
        /\ statusText' = fb.status
        /\ feedbackText' = fb.feedback
        /\ UNCHANGED << statsPushups, statsPlanks, statsWrites, pushUpCount, pushUpState,
                        baselineShoulderY, baselineHipY, plankVars >>

\* lines 774-803: the plank branch
PlankResults(smoothed) ==
    \E analysis \in {analyzePlank(smoothed)} :
    LET fb == provideFeedback(analysis)
        wasValid == plankFormValid
        valid == analysis.isValid
        becomesValid == valid /\ ~wasValid /\ isRunning /\ ~isPaused
        becomesInvalid == ~valid /\ wasValid /\ isRunning /\ ~isPaused
    IN  /\ plankFormValid' = valid
        /\ plankTimerInterval' =
              IF isRunning /\ ~isPaused THEN TRUE ELSE plankTimerInterval
        /\ scheduledIntervals' =
              IF isRunning /\ ~isPaused THEN IntervalsAfterStart ELSE scheduledIntervals
        /\ plankStartTime' =
              IF becomesValid /\ plankStartTime = Null THEN now ELSE plankStartTime
        /\ plankPauseTime' =
              IF becomesValid
              THEN IF plankStartTime = Null THEN 0 ELSE PauseTimeAfterResume
              ELSE plankPauseTime
        /\ plankTimeSaved' =
              IF becomesValid /\ plankStartTime = Null THEN FALSE ELSE plankTimeSaved
        /\ plankLastPauseStart' =
              IF becomesValid /\ plankStartTime # Null THEN Null
              ELSE IF becomesInvalid THEN LastPauseStartAfterStop
              ELSE plankLastPauseStart
        /\ statusText' = fb.status
        /\ feedbackText' = fb.feedback
        /\ UNCHANGED << statsVars, repVars, plankElapsedTime >>

OnPoseResults(landmarks) ==
    /\ pending
    /\ pending' = FALSE
    /\ IF landmarks = NoLandmarks
       THEN NoPoseResults
       ELSE \E smoothed \in {smoothPoseData(landmarks)} :
                /\ previousPoseData' = << smoothed >>
                /\ CASE currentExercise = "pushups" -> PushUpResults(smoothed)
                     [] currentExercise = "squats" -> SquatResults(smoothed)
                     [] OTHER -> PlankResults(smoothed)
    /\ UNCHANGED << authVars, isRunning, isPaused, currentExercise, now, framesSent,
                    validMs, flushDue, saveCalls >>

(***************************************************************************)
(* The session: every handler, in any order.                               *)
(***************************************************************************)
Next ==
    \/ Start
    \/ ProcessVideo
    \/ \E landmarks \in Frames \cup {NoLandmarks} :
          OnPoseResults(landmarks) /\ UNCHANGED trace
    \/ Tick
    \/ Pause
    \/ Reset
    \/ \E exercise \in Exercises : SelectExercise(exercise)
    \/ ClockAdvance

Spec == Init /\ [][Next]_vars

(***************************************************************************)
(* savePlankTime() called directly, several times in a row, on the state a *)
(* plank session leaves: logged in or not, on any exercise, the timer      *)
(* having counted elapsedSteps clock steps (only a plank session counts    *)
(* any), after earlier sessions stored storedSteps clock steps (only for a *)
(* user who is logged in).                                                 *)
(***************************************************************************)
InitFlush ==
    /\ authenticated \in BOOLEAN
    /\ currentExercise \in Exercises
    /\ \E elapsedSteps \in 0 .. MaxClockSteps, storedSteps \in 0 .. MaxClockSteps :
          /\ currentExercise # "planks" => elapsedSteps = 0
          /\ ~authenticated => storedSteps = 0
          /\ statsPushups = 0 /\ statsSquats = 0
          /\ statsPlanks = storedSteps * ClockStepMs
          /\ flushDue = storedSteps * ClockStepMs
          /\ statsWrites = IF storedSteps > 0 THEN 1 ELSE 0
          /\ isRunning = TRUE /\ isPaused = FALSE
          /\ pushUpCount = 0 /\ pushUpState = "UP"
          /\ squatCount = 0 /\ squatState = "UP"
          /\ plankStartTime = IF elapsedSteps > 0 THEN ClockStepMs ELSE Null
          /\ plankElapsedTime = elapsedSteps * ClockStepMs
          /\ plankPauseTime = 0 /\ plankLastPauseStart = Null
          /\ plankTimerInterval = (elapsedSteps > 0)
          /\ scheduledIntervals = IF elapsedSteps > 0 THEN 1 ELSE 0
          /\ plankFormValid = (elapsedSteps > 0)
          /\ plankTimeSaved = FALSE
          /\ baselineShoulderY = Null /\ baselineHipY = Null /\ baselineHipYSquat = Null
          /\ previousPoseData = IF elapsedSteps > 0 THEN << TopFrame >> ELSE << >>
          /\ statusText = IF elapsedSteps > 0 THEN "Correct" ELSE ""
          /\ feedbackText = ""
          /\ now = ClockStepMs * (elapsedSteps + 1)
          /\ pending = FALSE
          /\ framesSent = IF elapsedSteps > 0 THEN 1 ELSE 0
          /\ validMs = elapsedSteps * ClockStepMs
          /\ saveCalls = 0 /\ trace = << >>

savePlankTime ==
    /\ saveCalls < MaxSaveCalls
    /\ saveCalls' = saveCalls + 1
    /\ statsPlanks' = StatsPlanksAfterSave(currentExercise)
    /\ plankTimeSaved' = PlankTimeSavedAfterSave(currentExercise)
    /\ statsWrites' = IF PlankSaveDue(currentExercise) THEN statsWrites + 1 ELSE statsWrites
    /\ UNCHANGED << authVars, statsPushups, statsSquats, isRunning, isPaused,
                    currentExercise, repVars,
                    plankStartTime, plankElapsedTime, plankPauseTime, plankLastPauseStart,
                    plankTimerInterval, scheduledIntervals, plankFormValid,
                    previousPoseData, uiVars, now, pending, framesSent, validMs,
                    flushDue, trace >>

NextFlush == savePlankTime

SpecFlush == InitFlush /\ [][NextFlush]_vars

(***************************************************************************)
(* Repetition scenarios: the session is started on one exercise and frames *)
(* arrive one after the other; nothing else happens.  The camera frame of  *)
(* each step is the one whose smoothing is the pose the scenario wants the *)
(* analyzer to see (landmark coordinates are not confined to the image).   *)
(* trace records, per frame, what the analyzer computed from the smoothed  *)
(* frame.                                                                  *)
(***************************************************************************)
\* a number n with Blend(n, prev) = target: the least n whose rounded product
\* is target less the rounded product of prev
Unblend(target, prev) ==
    (10 * (target - RoundTenths(prev * smoothingFactor)) - 5 + (10 - smoothingFactor) - 1)
        \div (10 - smoothingFactor)

CameraFrameFor(pose) ==
    IF previousPoseData = << >>
    THEN pose
    ELSE LET prev == previousPoseData[1]
         IN  [i \in LandmarkIndices |->
                [x |-> Unblend(pose[i].x, prev[i].x),
                 y |-> Unblend(pose[i].y, prev[i].y),
                 z |-> Unblend(pose[i].z, prev[i].z),
                 visibility |-> pose[i].visibility]]

\* squat poses: knees near 170 degrees with the hips at 0.5; knees near 100
\* degrees with the hips 0.2 lower; knees near 100 degrees with the hips 0.05
\* lower
StandingPose == Body(400, 0, 500, 17, 900)
DeepSquatPose == Body(400, 0, 700, 84, 900)
ShallowSquatPose == Body(400, 0, 550, 147, 900)
SquatPoses == {StandingPose, DeepSquatPose, ShallowSquatPose}

\* push-up poses: elbows near 170 degrees with the shoulders at 0.4; the same
\* with the shoulders 0.008 lower; elbows near 80 degrees with the shoulders
\* 0.05 lower
TopPose == Body(400, 13, 500, 0, 900)
NearTopPose == Body(408, 13, 500, 0, 900)
BottomPose == Body(450, 149, 500, 0, 900)
PushUpPoses == {TopPose, NearTopPose, BottomPose}

\* what analyzeSquat computes from a smoothed frame: the average knee angle,
\* the hip drop below the baseline and the verdict
SquatSeen(smoothed) ==
    The({ [avgAngle |-> analysis.avgAngle,
           move |-> IF baseline = Null THEN 0 ELSE NumAdd(analysis.avgHipY, -baseline),
           reason |-> analysis.reason] :
          analysis \in {analyzeSquat(smoothed)},
          baseline \in {SquatBaselineAfterAnalyze(smoothed)} })

\* what analyzePushUp computes from a smoothed frame: the average elbow angle,
\* the shoulder movement below the baseline and the verdict
PushUpSeen(smoothed) ==
    The({ [avgAngle |-> analysis.avgAngle,
           move |-> IF base.shoulderY = Null THEN 0
                    ELSE NumAdd(analysis.avgShoulderY, -base.shoulderY),
           reason |-> IF analysis.shouldersAboveHips /\ analysis.isAligned
                      THEN analysis.reason ELSE "unsafe"] :
          analysis \in {analyzePushUp(smoothed)},
          base \in {PushUpBaselineAfterAnalyze(smoothed)} })

SquatFrame(pose) ==
    \E landmarks \in {CameraFrameFor(pose)} :
        /\ OnPoseResults(landmarks)
        /\ trace' = Append(trace, SquatSeen(smoothPoseData(landmarks)))

PushUpFrame(pose) ==
    \E landmarks \in {CameraFrameFor(pose)} :
        /\ OnPoseResults(landmarks)
        /\ trace' = Append(trace, PushUpSeen(smoothPoseData(landmarks)))

\* the state an exercise-card click on squats leaves
InitSquat ==
    /\ authenticated \in BOOLEAN
    /\ currentExercise = "squats"
    /\ InitSession

NextSquat ==
    \/ Start
    \/ ProcessVideoUpTo(MaxScenarioFrames)
    \/ \E pose \in SquatPoses : SquatFrame(pose)

SpecSquat == InitSquat /\ [][NextSquat]_vars

NextPushUp ==
    \/ Start
    \/ ProcessVideoUpTo(MaxScenarioFrames)
    \/ \E pose \in PushUpPoses : PushUpFrame(pose)

SpecPushUp == Init /\ [][NextPushUp]_vars

(***************************************************************************)
(* Occlusion scenario: a push-up or squat session in which a frame arrives *)
(* either whole or with one of the keypoints the exercise's analyzer tests *)
(* at visibility 0.5 or 0.                                                 *)
(***************************************************************************)
RequiredKeypoints(exercise) ==
    IF exercise = "pushups" THEN {11, 12, 13, 14, 15, 16} ELSE {23, 24, 25, 26, 27, 28}

PosesOf(exercise) ==
    IF exercise = "pushups" THEN PushUpPoses ELSE SquatPoses \ {ShallowSquatPose}

Occlude(pose, i, v) == [pose EXCEPT ![i].visibility = v]

WholeFrame(pose) ==
    \E landmarks \in {CameraFrameFor(pose)} :
        OnPoseResults(landmarks) /\ UNCHANGED trace

OccludedFrame(pose, i, v) ==
    \E landmarks \in {CameraFrameFor(Occlude(pose, i, v))} :
        OnPoseResults(landmarks) /\ UNCHANGED trace

InitOccluded ==
    /\ authenticated \in BOOLEAN
    /\ currentExercise \in {"pushups", "squats"}
    /\ InitSession

NextOccluded ==
    \/ Start
    \/ ProcessVideoUpTo(MaxOccludedFrames)
    \/ \E pose \in PosesOf(currentExercise) : WholeFrame(pose)
    \/ \E pose \in PosesOf(currentExercise), i \in RequiredKeypoints(currentExercise),
          v \in {0, VisibilityThreshold} :
          OccludedFrame(pose, i, v)

SpecOccluded == InitOccluded /\ [][NextOccluded]_vars

(***************************************************************************)
(* Coinciding-keypoints scenario: a push-up or squat session in which a    *)
(* frame arrives either as posed or with one keypoint of a limb at the     *)
(* place of its neighbour (elbow on shoulder, wrist on elbow, knee on hip, *)
(* ankle on knee), so that one vector of calculateAngle has length zero.   *)
(***************************************************************************)
\* << i, j >>: keypoint i is reported at the place of keypoint j
CoincidingPairs(exercise) ==
    IF exercise = "pushups"
    THEN {<< 13, 11 >>, << 15, 13 >>, << 14, 12 >>, << 16, 14 >>}
    ELSE {<< 25, 23 >>, << 27, 25 >>, << 26, 24 >>, << 28, 26 >>}

Coincide(pose, pair) == [pose EXCEPT ![pair[1]] = pose[pair[2]]]

SeenBy(exercise, smoothed) ==
    IF exercise = "pushups" THEN PushUpSeen(smoothed) ELSE SquatSeen(smoothed)

PosedFrame(pose) ==
    \E landmarks \in {CameraFrameFor(pose)} :
        /\ OnPoseResults(landmarks)
        /\ trace' = Append(trace, SeenBy(currentExercise, smoothPoseData(landmarks)))

NextCoinciding ==
    \/ Start
    \/ ProcessVideoUpTo(MaxCoincidingFrames)
    \/ \E pose \in PosesOf(currentExercise) : PosedFrame(pose)
    \/ \E pose \in PosesOf(currentExercise), pair \in CoincidingPairs(currentExercise) :
          PosedFrame(Coincide(pose, pair))

SpecCoinciding == InitOccluded /\ [][NextCoinciding]_vars

(***************************************************************************)
(* Smoothing scenario: a started session receives camera frames as they    *)
(* are (trace records each frame supplied), and may be reset.              *)
(***************************************************************************)
\* the top position with the shoulders at 0.41, so that the elbows are at
\* 0.555: a coordinate whose two products are both rounded up
OffGridFrame == Body(410, 0, 500, 0, 900)

\* the top position a quarter of the frame width towards the camera, seen with
\* visibility 0.6
DepthFrame == [i \in LandmarkIndices |-> [TopFrame[i] EXCEPT !.z = -250, !.visibility = 600]]

SmoothingFrames == {TopFrame, BottomFrame, OffGridFrame, DepthFrame}

RawFrame(landmarks) ==
    /\ OnPoseResults(landmarks)
    /\ trace' = Append(trace, landmarks)

NextSmoothing ==
    \/ Start
    \/ ProcessVideoUpTo(MaxSmoothingFrames)
    \/ \E landmarks \in SmoothingFrames : RawFrame(landmarks)
    \/ Reset

SpecSmoothing == Init /\ [][NextSmoothing]_vars

(***************************************************************************)
(* Push-up form scenario: a push-up session in which the analyzer sees the *)
(* push-up poses as they are or with any of three defects: the left        *)
(* shoulder 0.03 lower than the right (body tilt), the left elbow moved    *)
(* 0.1 sideways (the arms bent unequally), the hips raised to 0.3 (above   *)
(* the shoulders).                                                         *)
(***************************************************************************)
Tilted(pose) == [pose EXCEPT ![11].y = @ + 30]

Lopsided(pose) == [pose EXCEPT ![13].x = @ + 100]

Sagging(pose) == [pose EXCEPT ![23].y = 300, ![24].y = 300]

WithDefects(pose, tilted, lopsided, sagging) ==
    LET a == IF tilted THEN Tilted(pose) ELSE pose
        b == IF lopsided THEN Lopsided(a) ELSE a
    IN  IF sagging THEN Sagging(b) ELSE b

\* the near-top pose with the elbows near 115 degrees: bent enough for phase
\* DOWN, straight enough to come up
NearTopHalfBentPose == Body(408, 93, 500, 0, 900)

FormPoses ==
    { WithDefects(pose, tilted, lopsided, sagging) :
        pose \in PushUpPoses, tilted \in BOOLEAN, lopsided \in BOOLEAN, sagging \in BOOLEAN }
    \cup {NearTopHalfBentPose}

NextForm ==
    \/ Start
    \/ ProcessVideoUpTo(MaxFormFrames)
    \/ \E pose \in FormPoses : WholeFrame(pose)

SpecForm == Init /\ [][NextForm]_vars

(***************************************************************************)
(* Push-up phase scenario: a push-up session, which may be reset, in which *)
(* the analyzer sees poses on every side of the two phase tests: the       *)
(* shoulders 0.011 and 0.039 below the top position with the elbows near   *)
(* 115 degrees (inside the movement band), 0.008 below with the elbows     *)
(* near 105 degrees, 0.05 below with the elbows near 125 degrees, the top  *)
(* and bottom poses with one hip 0.03 lower than the other or with the     *)
(* hips above the shoulders, and the top pose with a wrist at visibility   *)
(* 0.5.                                                                    *)
(***************************************************************************)
BandLowPose == Body(411, 92, 500, 0, 900)
BandHighPose == Body(439, 83, 500, 0, 900)
NearTopBentPose == Body(408, 112, 500, 0, 900)
DeepStraightPose == Body(450, 65, 500, 0, 900)

HipTilted(pose) == [pose EXCEPT ![23].y = @ + 30]

PhasePoses ==
    PushUpPoses
    \cup {BandLowPose, BandHighPose, NearTopBentPose, DeepStraightPose}
    \cup { HipTilted(pose) : pose \in PushUpPoses }
    \cup { Sagging(pose) : pose \in PushUpPoses }
    \cup { Occlude(TopPose, 15, VisibilityThreshold) }

NextPhase ==
    \/ Start
    \/ ProcessVideoUpTo(MaxPhaseFrames)
    \/ \E pose \in PhasePoses : WholeFrame(pose)
    \/ Reset

SpecPhase == Init /\ [][NextPhase]_vars

(***************************************************************************)
(* Squat form scenario: a squat session, which may be reset, in which the  *)
(* analyzer sees the squat poses and: standing with the hips 0.02 higher,  *)
(* knees near 135 degrees with the hips 0.1 lower, knees near 100 degrees  *)
(* with the hips 0.14 lower, the standing and deep poses with the left     *)
(* knee moved 0.1 sideways (the legs bent unequally), and the standing     *)
(* pose with an ankle at visibility 0.5.                                   *)
(***************************************************************************)
TallStandingPose == Body(400, 0, 480, 18, 900)
HalfSquatPose == Body(400, 0, 600, 62, 900)
NearDeepSquatPose == Body(400, 0, 640, 109, 900)

LopsidedKnees(pose) == [pose EXCEPT ![25].x = @ + 100]

SquatFormPoses ==
    SquatPoses
    \cup {TallStandingPose, HalfSquatPose, NearDeepSquatPose}
    \cup {LopsidedKnees(StandingPose), LopsidedKnees(DeepSquatPose)}
    \cup {Occlude(StandingPose, 27, VisibilityThreshold)}

NextSquatForm ==
    \/ Start
    \/ ProcessVideoUpTo(MaxSquatFormFrames)
    \/ \E pose \in SquatFormPoses : WholeFrame(pose)
    \/ Reset

SpecSquatForm == InitSquat /\ [][NextSquatForm]_vars

(***************************************************************************)
(* Plank form scenario: a plank session in which the analyzer sees a body  *)
(* with the hips 0.1, 0.19 or 0.22 below the shoulders or 0.22 above them, *)
(* level or with one shoulder or one hip 0.03 lower than the other, and    *)
(* with a shoulder, a hip or an ankle at visibility 0.5.                   *)
(***************************************************************************)
\* the state an exercise-card click on planks leaves
InitPlank ==
    /\ authenticated \in BOOLEAN
    /\ currentExercise = "planks"
    /\ InitSession

LevelPlankPose == Body(400, 0, 500, 0, 900)
NearSteepPlankPose == Body(400, 0, 590, 0, 900)
SteepPlankPose == Body(400, 0, 620, 0, 900)
PikePlankPose == Body(400, 0, 180, 0, 900)

PlankPoses == {LevelPlankPose, NearSteepPlankPose, SteepPlankPose, PikePlankPose}

PlankFormPoses ==
    PlankPoses
    \cup { Tilted(pose) : pose \in {LevelPlankPose, SteepPlankPose} }
    \cup { HipTilted(pose) : pose \in {LevelPlankPose, SteepPlankPose} }
    \cup { Occlude(pose, i, VisibilityThreshold) :
             pose \in {LevelPlankPose, Tilted(SteepPlankPose)}, i \in {11, 12, 23, 24, 27} }

NextPlankForm ==
    \/ Start
    \/ ProcessVideoUpTo(MaxPlankFormFrames)
    \/ \E pose \in PlankFormPoses : WholeFrame(pose)

SpecPlankForm == InitPlank /\ [][NextPlankForm]_vars

(***************************************************************************)
(* Properties of the session (specification Spec).                         *)
(***************************************************************************)
\* reset() was called: by the reset button or by an exercise card
ResetCalled == Reset \/ \E exercise \in Exercises : SelectExercise(exercise)

\* C1: an exercise-card click made while a plank session holds unsaved elapsed
\* time (plankElapsedTime > 0) and the user is logged in adds that time to the
\* stored plank stat.
C1_SwitchFlushesPlankTime ==
    [][\A exercise \in Exercises :
          (/\ SelectExercise(exercise)
           /\ currentExercise = "planks"
           /\ authenticated
           /\ plankElapsedTime > 0)
          => statsPlanks' = statsPlanks + plankElapsedTime]_vars

\* C2: reset() with currentExercise = 'planks' and the user logged in adds the
\* elapsed time e to stats.planks, as one addition when e > 0 and none when
\* e = 0, and leaves plankStartTime, plankElapsedTime, plankPauseTime and
\* plankLastPauseStart cleared (so that a second reset() adds nothing).
C2_ResetSavesOnceThenClears ==
    [][(Reset /\ currentExercise = "planks" /\ authenticated)
          => /\ statsPlanks' = statsPlanks + plankElapsedTime
             /\ statsWrites' = statsWrites + (IF plankElapsedTime > 0 THEN 1 ELSE 0)
             /\ plankStartTime' = Null
             /\ plankElapsedTime' = 0
             /\ plankPauseTime' = 0
             /\ plankLastPauseStart' = Null
             /\ ~plankTimeSaved']_vars

\* a plank session was reset with time on the clock, and its time is stored
C2_Witness ==
    /\ currentExercise = "planks" /\ authenticated
    /\ statsWrites = 1 /\ statsPlanks = 2 * ClockStepMs
    /\ flushDue = 2 * ClockStepMs
    /\ plankElapsedTime = 0 /\ plankStartTime = Null

\* C4: the plank time persisted in the stats store is the sum, over the calls
\* of reset() made while logged in, of the plankElapsedTime held at the call.
C4_PersistedIsSumOverResets == statsPlanks = flushDue

\* C5: pushUpCount and squatCount never decrease, except in a step that calls
\* reset(), which sets both to 0.
C5_CountsMonotonic ==
    [][\/ pushUpCount' >= pushUpCount /\ squatCount' >= squatCount
       \/ ResetCalled /\ pushUpCount' = 0 /\ squatCount' = 0]_vars

\* a repetition was counted and stored, and the counter then went back to 0
C5_Witness ==
    /\ authenticated
    /\ statsSquats = 1 /\ squatCount = 0 /\ pushUpCount = 0
    /\ currentExercise = "squats"

\* C9: whenever the interval callback recomputes plankElapsedTime, the value is
\* the wall-clock time since plankStartTime during which form was valid and
\* the session running and not paused.
C9_ElapsedIsValidTime ==
    [][(Tick /\ TickRecomputes) => plankElapsedTime' = validMs]_vars

\* valid for two clock steps, invalid for one, valid for one: three counted
C9_Witness ==
    /\ plankStartTime # Null
    /\ now - plankStartTime = 4 * ClockStepMs
    /\ plankPauseTime = ClockStepMs
    /\ plankElapsedTime = 3 * ClockStepMs
    /\ validMs = 3 * ClockStepMs

\* C10: plankElapsedTime changes only in an interval callback run while form is
\* valid, the session running and not paused, or in reset(), which zeroes it.
C10_ElapsedChangesOnlyInValidTick ==
    [][plankElapsedTime' # plankElapsedTime
          => \/ Tick /\ plankFormValid /\ isRunning /\ ~isPaused
             \/ ResetCalled /\ plankElapsedTime' = 0]_vars

\* the timer has advanced while a frame's result is awaited
C10_Witness ==
    /\ plankElapsedTime = ClockStepMs
    /\ plankFormValid /\ isRunning /\ ~isPaused
    /\ pending

(***************************************************************************)
(* Properties of savePlankTime() (specification SpecFlush).                *)
(***************************************************************************)
\* C3: savePlankTime() called twice in a row, plankElapsedTime unchanged between
\* the calls, adds to the stats store once: after the first call of a logged-in
\* plank session with time on the clock plankTimeSaved is true and stats.planks
\* holds the earlier total plus the elapsed time, and every later call leaves
\* stats.planks as it is.
C3_SecondFlushAddsNothing ==
    /\ [](/\ authenticated /\ currentExercise = "planks"
          /\ plankElapsedTime > 0 /\ saveCalls >= 1
          => plankTimeSaved /\ statsPlanks = flushDue + plankElapsedTime)
    /\ [][(savePlankTime /\ saveCalls >= 1)
             => UNCHANGED << statsPlanks, statsWrites >>]_vars

\* a plank session's time, on top of an earlier total, after two calls
C3_Witness ==
    /\ saveCalls = 2
    /\ authenticated /\ currentExercise = "planks"
    /\ plankElapsedTime = 2 * ClockStepMs
    /\ statsPlanks = 3 * ClockStepMs
    /\ plankTimeSaved

(***************************************************************************)
(* Properties of the squat scenario (specification SpecSquat).             *)
(***************************************************************************)
SeenStanding(seen) == seen.avgAngle # NaN /\ seen.avgAngle > Half(Deg(150))

SeenBent(seen) == seen.avgAngle # NaN /\ seen.avgAngle < Half(Deg(120))

\* the frames of trace from first to last (none when first > last)
AllSeen(first, last, Class(_)) == \A k \in first .. last : Class(trace[k])

SeenDeepSquat(seen) ==
    SeenBent(seen) /\ seen.move > Half(SQUAT_HIP_DROP_THRESHOLD)

SeenShallowSquat(seen) ==
    SeenBent(seen) /\ seen.move = Half(50)

\* C6: after a standing baseline, standing frames, then bent frames whose hip
\* drop is 0.05, then standing frames count no repetition, and each bent frame
\* is reported with the reason 'Go lower'.
C6_ShallowSquatCountsNothing ==
    \A standing, bent \in 1 .. Len(trace) :
        (/\ standing + bent <= Len(trace)
         /\ AllSeen(1, standing, SeenStanding)
         /\ AllSeen(standing + 1, standing + bent, SeenShallowSquat)
         /\ AllSeen(standing + bent + 1, Len(trace), SeenStanding))
        => /\ squatCount = 0
           /\ \A k \in standing + 1 .. standing + bent : trace[k].reason = "Go lower"

\* C7: after a standing baseline and in phase UP, standing frames leave the
\* phase UP and the count 0; the first bent frame, the hips 0.2 lower, makes the
\* phase DOWN, and it stays DOWN with the count 0 over the bent frames; the
\* first standing frame after them makes the phase UP and the count 1, and
\* later standing frames change neither.
C7_DeepSquatCountsOne ==
    \A standing \in 1 .. Len(trace), bent \in 0 .. Len(trace) :
        (/\ standing + bent <= Len(trace)
         /\ AllSeen(1, standing, SeenStanding)
         /\ AllSeen(standing + 1, standing + bent, SeenDeepSquat)
         /\ AllSeen(standing + bent + 1, Len(trace), SeenStanding))
        => IF bent = 0 THEN squatState = "UP" /\ squatCount = 0
           ELSE IF standing + bent = Len(trace)
           THEN squatState = "DOWN" /\ squatCount = 0
           ELSE /\ squatState = "UP" /\ squatCount = 1
                /\ statsSquats = IF authenticated THEN 1 ELSE 0

\* the calibrating frame, then knee angles near 170, 170, 100, 100, 170 with
\* the hips 0.2 lower in the bent frames
C7_Witness ==
    /\ Len(trace) = 6
    /\ AllSeen(1, 3, SeenStanding)
    /\ AllSeen(4, 5, SeenDeepSquat)
    /\ \A k \in 4 .. 5 :
          /\ trace[k].move = Half(200)
          /\ Abs(trace[k].avgAngle - Half(Deg(100))) < Half(Deg(1))
    /\ \A k \in {1, 2, 3, 6} : Abs(trace[k].avgAngle - Half(Deg(170))) < Half(Deg(1))
    /\ squatCount = 1 /\ squatState = "UP"

(***************************************************************************)
(* Properties of the push-up scenario (specification SpecPushUp).          *)
(***************************************************************************)
\* elbows near 170 degrees, shoulders within 0.01 below the baseline, the
\* safety checks passed
SeenTop(seen) ==
    /\ seen.avgAngle # NaN /\ seen.avgAngle > Half(Deg(160))
    /\ seen.move < Half(10)
    /\ seen.reason # "unsafe"

\* elbows near 80 degrees, shoulders more than 0.04 below the baseline, the
\* safety checks passed
SeenBottom(seen) ==
    /\ seen.avgAngle # NaN /\ seen.avgAngle < Half(Deg(90))
    /\ seen.move > Half(40)
    /\ seen.reason # "unsafe"

\* C8: from phase UP with the baseline established and every frame passing the
\* safety checks, frames at the top leave the phase UP and the count 0; the
\* first frame with the elbows near 80 degrees and the shoulders past
\* baseline + 0.04 makes the phase DOWN; the first frame back at the top, the
\* shoulders within baseline + 0.01, makes the phase UP and the count 1, and
\* later frames at the top change neither.
C8_PushUpCountsOne ==
    \A top \in 1 .. Len(trace), bottom \in 0 .. Len(trace) :
        (/\ top + bottom <= Len(trace)
         /\ AllSeen(1, top, SeenTop)
         /\ AllSeen(top + 1, top + bottom, SeenBottom)
         /\ AllSeen(top + bottom + 1, Len(trace), SeenTop))
        => IF bottom = 0 THEN pushUpState = "UP" /\ pushUpCount = 0
           ELSE IF top + bottom = Len(trace)
           THEN pushUpState = "DOWN" /\ pushUpCount = 0
           ELSE /\ pushUpState = "UP" /\ pushUpCount = 1
                /\ statsPushups = IF authenticated THEN 1 ELSE 0

\* the calibrating frame, a frame near 80 degrees with the shoulders 0.05
\* lower, and a frame near 170 degrees with the shoulders 0.008 below the
\* baseline
C8_Witness ==
    /\ Len(trace) = 3
    /\ SeenTop(trace[1]) /\ trace[1].move = 0
    /\ SeenBottom(trace[2]) /\ trace[2].move = Half(50)
    /\ Abs(trace[2].avgAngle - Half(Deg(80))) < Half(Deg(1))
    /\ SeenTop(trace[3]) /\ trace[3].move = Half(8)
    /\ Abs(trace[3].avgAngle - Half(Deg(170))) < Half(Deg(1))
    /\ pushUpCount = 1 /\ pushUpState = "UP"

(***************************************************************************)
(* Properties of the occlusion scenario (specification SpecOccluded).      *)
(***************************************************************************)
\* C11: a frame in which one keypoint the analyzer requires has visibility
\* <= 0.5 is handled to the end, is reported 'Incorrect' with a non-empty
\* reason, and changes neither phase, count nor baseline of the exercise (nor
\* the stored counts), whatever the phase and baseline are.
C11_OccludedFrameChangesNothing ==
    [][\A pose \in PosesOf(currentExercise), i \in RequiredKeypoints(currentExercise),
          v \in {0, VisibilityThreshold} :
          OccludedFrame(pose, i, v)
          => /\ UNCHANGED << pushUpCount, pushUpState, squatCount, squatState,
                             baselineShoulderY, baselineHipY, baselineHipYSquat,
                             statsPushups, statsSquats >>
             /\ statusText' = "Incorrect"
             /\ feedbackText' = "Not all body parts visible"
             /\ ~pending']_vars

\* an occluded frame arrived in phase DOWN with the baseline set
C11_Witness ==
    /\ pushUpState = "DOWN" /\ baselineShoulderY # Null
    /\ feedbackText = "Not all body parts visible"
    /\ framesSent = 3 /\ ~pending
    /\ previousPoseData # << >>
    /\ \E i \in RequiredKeypoints("pushups") :
          previousPoseData[1][i].visibility = VisibilityThreshold

(***************************************************************************)
(* Properties of the coinciding-keypoints scenario (SpecCoinciding).       *)
(***************************************************************************)
\* C12: calculateAngle returns a defined angle also when one of its vectors has
\* length zero: the average angle an analyzer computes from a frame with every
\* keypoint visible, and compares with its thresholds, is never NaN.
C12_AngleIsNeverNaN ==
    \A k \in 1 .. Len(trace) : trace[k].avgAngle # NaN

(***************************************************************************)
(* Further properties of the session (specification Spec).                 *)
(***************************************************************************)
\* a step in which onPoseResults handles a frame
FrameHandled == pending /\ ~pending'

\* C13: in a step that handles a frame, the push-up (squat) count goes up by 1
\* if the exercise is push-ups (squats) and the frame takes its phase from DOWN
\* to UP, and is unchanged otherwise; the stored count goes up by 1 with it when
\* the user is logged in and is unchanged otherwise.  No other step but reset()
\* changes a count or a stored count.
C13_CountsOnlyOnDownToUp ==
    [][LET pushUpRep == /\ FrameHandled /\ currentExercise = "pushups"
                        /\ pushUpState = "DOWN" /\ pushUpState' = "UP"
           squatRep == /\ FrameHandled /\ currentExercise = "squats"
                       /\ squatState = "DOWN" /\ squatState' = "UP"
       IN  /\ ~ResetCalled =>
                /\ pushUpCount' = pushUpCount + (IF pushUpRep THEN 1 ELSE 0)
                /\ squatCount' = squatCount + (IF squatRep THEN 1 ELSE 0)
           /\ statsPushups' = statsPushups + (IF pushUpRep /\ authenticated THEN 1 ELSE 0)
           /\ statsSquats' = statsSquats + (IF squatRep /\ authenticated THEN 1 ELSE 0)]_vars

\* a push-up was counted and stored
C13_Witness ==
    /\ authenticated /\ currentExercise = "pushups"
    /\ pushUpCount = 1 /\ pushUpState = "UP" /\ statsPushups = 1
    /\ squatCount = 0 /\ statsSquats = 0

(***************************************************************************)
(* Properties of the smoothing scenario (specification SpecSmoothing).     *)
(***************************************************************************)
\* the x, y and z of every keypoint of a frame
Coordinates(frame) ==
    [i \in LandmarkIndices |-> << frame[i].x, frame[i].y, frame[i].z >>]

\* what rounding can add to the distance between output and input: one unit
\* (half a unit for each of the two products), taken up again only at the rate
\* 1 - smoothingFactor
RoundingSlack == (10 + (10 - smoothingFactor) - 1) \div (10 - smoothingFactor)

\* C14 as stated: the first frame after construction or reset() is stored and
\* returned as supplied; a frame F supplied again when the stored frame is F
\* (so, by induction, F supplied k times in a row) is returned as F; and from
\* any stored frame no coordinate of the output is farther from F's than the
\* stored one was.
C14_ConstantFrameIsReturned ==
    [][\A F \in SmoothingFrames :
          RawFrame(F) =>
            /\ previousPoseData = << >> => previousPoseData' = << F >>
            /\ previousPoseData = << F >> => previousPoseData' = << F >>
            /\ previousPoseData # << >> =>
                 \A i \in LandmarkIndices, c \in 1 .. 3 :
                    Abs(Coordinates(previousPoseData'[1])[i][c] - Coordinates(F)[i][c])
                      <= Abs(Coordinates(previousPoseData[1])[i][c] - Coordinates(F)[i][c])]_vars

\* C14 amended: the first frame after construction or reset() is stored and
\* returned as supplied; from any stored frame, no coordinate of the output is
\* farther from F's than the stored one was or than the rounding slack,
\* whichever is larger (so F supplied k times in a row is returned to within
\* the rounding slack), and the visibility of the output is F's.
C14_ConstantFrameWithinRounding ==
    [][\A F \in SmoothingFrames :
          RawFrame(F) =>
            /\ previousPoseData = << >> => previousPoseData' = << F >>
            /\ previousPoseData # << >> =>
                 \A i \in LandmarkIndices :
                    /\ previousPoseData'[1][i].visibility = F[i].visibility
                    /\ \A c \in 1 .. 3 :
                          Abs(Coordinates(previousPoseData'[1])[i][c] - Coordinates(F)[i][c])
                            <= Max(Abs(Coordinates(previousPoseData[1])[i][c]
                                       - Coordinates(F)[i][c]),
                                   RoundingSlack)]_vars

\* the same frame supplied three times, and the output is not the frame
C14_Witness ==
    /\ Len(trace) = 3
    /\ trace[1] = trace[2] /\ trace[2] = trace[3]
    /\ previousPoseData # << >>
    /\ previousPoseData[1] # trace[3]
    /\ \A i \in LandmarkIndices, c \in 1 .. 3 :
          Abs(Coordinates(previousPoseData[1])[i][c] - Coordinates(trace[3])[i][c]) <= 1

\* C27: on every frame after the first, each of x, y and z of the smoothed
\* frame is raw * (1 - 0.7) + previous * 0.7 (to within one unit of the grid,
\* the rounding of the two products), its visibility is the raw frame's, and
\* the smoothed frame is both the frame the analyzer judges and the frame
\* stored for the next frame.
C27_SmoothedIsBlendOfRawAndPrevious ==
    [][\A F \in SmoothingFrames :
          (RawFrame(F) /\ previousPoseData # << >>)
          => /\ \A i \in LandmarkIndices :
                  /\ previousPoseData'[1][i].visibility = F[i].visibility
                  /\ \A c \in 1 .. 3 :
                        Abs(10 * Coordinates(previousPoseData'[1])[i][c]
                            - ((10 - 7) * Coordinates(F)[i][c]
                               + 7 * Coordinates(previousPoseData[1])[i][c])) <= 10
             /\ feedbackText' = provideFeedback(analyzePushUp(previousPoseData'[1])).feedback]_vars

\* the bottom frame arrived after the depth frame: z is 0.7 of the depth
\* frame's, y lies between the two, the visibility is the bottom frame's
C27_Witness ==
    /\ Len(trace) = 2
    /\ trace[1] = DepthFrame /\ trace[2] = BottomFrame
    /\ previousPoseData # << >>
    /\ previousPoseData[1][11].z = -175
    /\ previousPoseData[1][11].y = 442
    /\ previousPoseData[1][11].visibility = 900

(***************************************************************************)
(* Further properties of the plank timer (specification Spec).             *)
(***************************************************************************)
\* C15: in every reachable state with plank form valid, the session running and
\* not paused, plankStartTime is set (so that the interval callback sets
\* plankElapsedTime to now - plankStartTime - plankPauseTime).
C15_ValidRunningHasStartTime ==
    (currentExercise = "planks" /\ plankFormValid /\ isRunning /\ ~isPaused)
        => plankStartTime # Null

\* a step in which a plank frame is handled while running and not paused
PlankFrameCounted ==
    FrameHandled /\ currentExercise = "planks" /\ isRunning /\ ~isPaused

\* C16: when a plank frame turns the form from invalid to valid while running
\* and not paused: with plankStartTime null, plankStartTime becomes now,
\* plankPauseTime 0 and plankTimeSaved false; otherwise a pause interval is
\* open, its length is added to plankPauseTime, plankLastPauseStart is cleared
\* and plankStartTime stays.
C16_BecomesValidStartsOrResumes ==
    [][(PlankFrameCounted /\ ~plankFormValid /\ plankFormValid')
          => IF plankStartTime = Null
             THEN /\ plankStartTime' = now
                  /\ plankPauseTime' = 0
                  /\ ~plankTimeSaved'
             ELSE /\ plankLastPauseStart # Null
                  /\ plankPauseTime' = plankPauseTime + (now - plankLastPauseStart)
                  /\ plankLastPauseStart' = Null
                  /\ plankStartTime' = plankStartTime]_vars

\* the timer was started by a frame one clock step into the session, and a
\* pause interval of one clock step has since been folded in, the form being
\* valid again
C16_Witness ==
    /\ currentExercise = "planks" /\ plankFormValid /\ isRunning /\ ~isPaused
    /\ plankStartTime = 2 * ClockStepMs
    /\ plankPauseTime = ClockStepMs
    /\ plankLastPauseStart = Null
    /\ ~plankTimeSaved
    /\ framesSent = 3 /\ ~pending

\* C17: when a plank frame turns the form from valid to invalid while running
\* and not paused, plankLastPauseStart becomes now unless a pause interval is
\* open, and plankStartTime, plankElapsedTime and plankPauseTime stay; an
\* interval callback run while the form is invalid leaves plankElapsedTime as
\* it is.
C17_BecomesInvalidOpensPause ==
    [][/\ (PlankFrameCounted /\ plankFormValid /\ ~plankFormValid')
            => /\ plankLastPauseStart' =
                    (IF plankLastPauseStart = Null THEN now ELSE plankLastPauseStart)
               /\ UNCHANGED << plankStartTime, plankElapsedTime, plankPauseTime >>
       /\ (Tick /\ ~plankFormValid) => UNCHANGED plankElapsedTime]_vars

C19_ResetRestoresInitialState ==
    [][ResetCalled
          => /\ plankTimerInterval' = FALSE
             /\ pushUpCount' = 0 /\ squatCount' = 0
             /\ pushUpState' = "UP" /\ squatState' = "UP"
             /\ baselineShoulderY' = Null /\ baselineHipY' = Null
             /\ baselineHipYSquat' = Null
             /\ previousPoseData' = << >>
             /\ plankStartTime' = Null /\ plankElapsedTime' = 0
             /\ plankPauseTime' = 0 /\ plankLastPauseStart' = Null
             /\ plankFormValid' = FALSE /\ plankTimeSaved' = FALSE]_vars

\* a running plank session whose timer had counted was reset: its time is
\* stored, the interval is cleared and no frame has arrived since
C19_Witness ==
    /\ authenticated /\ currentExercise = "planks" /\ isRunning
    /\ statsPlanks = ClockStepMs /\ framesSent = 1 /\ ~pending
    /\ ~plankTimerInterval
    /\ previousPoseData = << >>
    /\ plankStartTime = Null /\ plankElapsedTime = 0

(***************************************************************************)
(* Properties of the push-up form scenario (specification SpecForm).       *)
(***************************************************************************)
\* the verdict the priority order gives for a frame seen in a phase
PriorityReason(frame, phase) ==
    LET leftAngle == calculateAngle(frame[11], frame[13], frame[15])
        rightAngle == calculateAngle(frame[12], frame[14], frame[16])
        shoulders == frame[11].y + frame[12].y
        hips == frame[23].y + frame[24].y
        tilt == Max(Abs(frame[11].y - frame[12].y), Abs(frame[23].y - frame[24].y))
    IN  IF shoulders >= hips THEN "Keep your body higher"
        ELSE IF tilt >= 30 THEN "Keep your body straight"
        ELSE IF Abs(leftAngle - rightAngle) >= Deg(15)
             THEN "Work with both arms symmetrically"
        ELSE IF phase = "DOWN" /\ ~(leftAngle < Deg(120) /\ rightAngle < Deg(120))
             THEN "Bend your arms more"
        ELSE IF phase = "UP" /\ leftAngle + rightAngle < 2 * Deg(100)
             THEN "Straighten your arms completely"
        ELSE ""

\* C20: the verdict on a push-up frame (every keypoint visible, every angle
\* defined) is the first failing check of the priority order, taken with the
\* phase in effect before the frame's state update: the feedback text is its
\* reason, and the status is 'Correct' exactly when no check fails.
C20_PushUpValidityPriority ==
    [][\A pose \in FormPoses :
          WholeFrame(pose)
          => /\ feedbackText' = PriorityReason(pose, pushUpState)
             /\ statusText' = IF PriorityReason(pose, pushUpState) = ""
                              THEN "Correct" ELSE "Incorrect"]_vars

\* the frame that took the phase from UP to DOWN was judged with phase UP: its
\* bent arms are reported as not straightened although the phase is now DOWN
C20_Witness ==
    /\ pushUpState = "DOWN" /\ pushUpCount = 0
    /\ feedbackText = "Straighten your arms completely"
    /\ statusText = "Incorrect"
    /\ previousPoseData = << BottomPose >>

(***************************************************************************)
(* Properties of the push-up phase scenario (specification SpecPhase).     *)
(***************************************************************************)
\* twice the average shoulder height, hip height and elbow angle of a frame
ShoulderSum(frame) == frame[11].y + frame[12].y

HipSum(frame) == frame[23].y + frame[24].y

ElbowSum(frame) ==
    calculateAngle(frame[11], frame[13], frame[15])
        + calculateAngle(frame[12], frame[14], frame[16])

\* the frame passes the safety checks: arm keypoints visible, shoulders above
\* hips, shoulders and hips level within 0.03
PushUpSafe(frame) ==
    /\ \A i \in {11, 12, 13, 14, 15, 16} : frame[i].visibility > 500
    /\ ShoulderSum(frame) < HipSum(frame)
    /\ Abs(frame[11].y - frame[12].y) < 30
    /\ Abs(frame[23].y - frame[24].y) < 30

\* C21: the push-up phase changes on a frame only when a baseline exists and
\* the frame passes the safety checks: from UP to DOWN exactly when the
\* shoulders are more than 0.04 below the baseline and the average elbow angle
\* is below 120, from DOWN to UP exactly when they are less than 0.01 below it
\* and the average elbow angle is above 110; a frame with the shoulders
\* between 0.01 and 0.04 below the baseline leaves the phase as it is.
C21_PushUpPhaseTransitions ==
    [][\A pose \in PhasePoses :
          WholeFrame(pose)
          => LET base == IF baselineShoulderY = Null
                         THEN baselineShoulderY' ELSE baselineShoulderY
                 safe == base # Null /\ PushUpSafe(pose)
                 move == ShoulderSum(pose) - base
                 down == safe /\ move > 2 * 40 /\ ElbowSum(pose) < 2 * Deg(120)
                 up == safe /\ move < 2 * 10 /\ ElbowSum(pose) > 2 * Deg(110)
             IN  /\ (pushUpState = "UP" /\ pushUpState' = "DOWN") <=> (pushUpState = "UP" /\ down)
                 /\ (pushUpState = "DOWN" /\ pushUpState' = "UP") <=> (pushUpState = "DOWN" /\ up)
                 /\ (base # Null /\ move >= 2 * 10 /\ move <= 2 * 40)
                       => pushUpState' = pushUpState]_vars

\* a frame inside the movement band arrived in phase DOWN, two frames after
\* the calibration, and left the phase alone
C21_Witness ==
    /\ pushUpState = "DOWN"
    /\ previousPoseData = << BandLowPose >>
    /\ baselineShoulderY = ShoulderSum(TopPose)
    /\ framesSent = 3

\* C22: the push-up baseline changes in three ways only.  A frame that finds
\* it null sets it to the frame's average shoulder height when the arm
\* keypoints are visible, the shoulders are above the hips, the body is
\* aligned and the average elbow angle is above 140; a frame that takes the
\* phase from DOWN to UP sets it to the frame's average shoulder height;
\* reset() clears it.  Every other frame and every other step leaves it
\* unchanged.
C22_BaselineChangesThreeWays ==
    /\ [][\A pose \in PhasePoses :
            WholeFrame(pose)
            => baselineShoulderY' =
                  IF baselineShoulderY = Null
                  THEN IF PushUpSafe(pose) /\ ElbowSum(pose) > 2 * Deg(140)
                       THEN ShoulderSum(pose) ELSE Null
                  ELSE IF pushUpState = "DOWN" /\ pushUpState' = "UP"
                       THEN ShoulderSum(pose) ELSE baselineShoulderY]_vars
    /\ [][ResetCalled => baselineShoulderY' = Null]_vars
    /\ [][(~FrameHandled /\ baselineShoulderY' # baselineShoulderY) => ResetCalled]_vars

\* a repetition was completed in the near-top pose and the baseline, calibrated
\* in the top pose, is now the shoulder height of the near-top pose
C22_Witness ==
    /\ pushUpCount = 1 /\ pushUpState = "UP"
    /\ previousPoseData = << NearTopPose >>
    /\ baselineShoulderY = ShoulderSum(NearTopPose)
    /\ framesSent = 3

(***************************************************************************)
(* Properties of the squat form scenario (specification SpecSquatForm).    *)
(***************************************************************************)
\* the two knee angles of a frame, and twice their average
LeftKnee(frame) == calculateAngle(frame[23], frame[25], frame[27])

RightKnee(frame) == calculateAngle(frame[24], frame[26], frame[28])

KneeSum(frame) == LeftKnee(frame) + RightKnee(frame)

LegsVisible(frame) == \A i \in {23, 24, 25, 26, 27, 28} : frame[i].visibility > 500

\* the verdict the priority order gives for a frame, the baseline being the
\* one in place after the frame's calibration attempt
SquatPriorityReason(frame, baseline) ==
    IF baseline = Null THEN "Stand up straight to start"
    ELSE IF Abs(LeftKnee(frame) - RightKnee(frame)) >= Deg(20) THEN "Keep both legs balanced"
    ELSE IF KneeSum(frame) < 2 * Deg(120)
         THEN IF HipSum(frame) - baseline > 2 * 150 THEN "" ELSE "Go lower"
    ELSE IF KneeSum(frame) > 2 * Deg(150) THEN ""
    ELSE "Position yourself in view"

\* C23: the verdict on a squat frame with the leg keypoints visible is the
\* first applicable case of the priority order: no baseline after the frame's
\* calibration attempt, knee angles 20 or more apart, knees below 120 (valid
\* only with the hips more than 0.15 below the baseline, else 'Go lower'),
\* knees above 150 (valid), else 'Position yourself in view'.
C23_SquatValidityPriority ==
    [][\A pose \in SquatFormPoses :
          (WholeFrame(pose) /\ LegsVisible(pose))
          => /\ feedbackText' = SquatPriorityReason(pose, baselineHipYSquat')
             /\ statusText' = IF SquatPriorityReason(pose, baselineHipYSquat') = ""
                              THEN "Correct" ELSE "Incorrect"]_vars

\* with a baseline in place, a frame with the knees bent unequally, below 120
\* on average and the hips 0.2 lower is reported as unbalanced
C23_Witness ==
    /\ baselineHipYSquat = HipSum(StandingPose)
    /\ previousPoseData = << LopsidedKnees(DeepSquatPose) >>
    /\ feedbackText = "Keep both legs balanced"
    /\ statusText = "Incorrect"

\* C24: the squat phase changes on a frame only when a baseline exists (after
\* the frame's calibration attempt): from UP to DOWN exactly when the average
\* knee angle is below 120, from DOWN to UP exactly when it is above 150; a
\* frame with the average knee angle from 120 to 150 changes neither the phase
\* nor the count.
C24_SquatPhaseTransitions ==
    [][\A pose \in SquatFormPoses :
          (WholeFrame(pose) /\ LegsVisible(pose))
          => LET based == baselineHipYSquat' # Null
                 down == based /\ KneeSum(pose) < 2 * Deg(120)
                 up == based /\ KneeSum(pose) > 2 * Deg(150)
             IN  /\ (squatState = "UP" /\ squatState' = "DOWN") <=> (squatState = "UP" /\ down)
                 /\ (squatState = "DOWN" /\ squatState' = "UP") <=> (squatState = "DOWN" /\ up)
                 /\ (KneeSum(pose) >= 2 * Deg(120) /\ KneeSum(pose) <= 2 * Deg(150))
                       => (squatState' = squatState /\ squatCount' = squatCount)]_vars

\* a frame with the knees near 135 degrees arrived in phase DOWN and left the
\* phase and the count alone
C24_Witness ==
    /\ squatState = "DOWN" /\ squatCount = 0
    /\ baselineHipYSquat = HipSum(StandingPose)
    /\ previousPoseData = << HalfSquatPose >>
    /\ framesSent = 3

\* C25: the squat baseline is set by a frame only when it is null, the leg
\* keypoints are visible and the average knee angle is above 150, to the
\* frame's average hip height; no frame changes it once it is set, a frame
\* that completes a repetition included; reset() clears it and no other step
\* changes it.
C25_SquatBaselineSetOnce ==
    /\ [][\A pose \in SquatFormPoses :
            WholeFrame(pose)
            => baselineHipYSquat' =
                  IF baselineHipYSquat = Null /\ LegsVisible(pose)
                     /\ KneeSum(pose) > 2 * Deg(150)
                  THEN HipSum(pose) ELSE baselineHipYSquat]_vars
    /\ [][ResetCalled => baselineHipYSquat' = Null]_vars
    /\ [][(~FrameHandled /\ baselineHipYSquat' # baselineHipYSquat) => ResetCalled]_vars

\* a repetition was completed standing with the hips 0.02 higher than in the
\* calibration frame, and the baseline is still that of the calibration frame
C25_Witness ==
    /\ squatCount = 1 /\ squatState = "UP"
    /\ previousPoseData = << TallStandingPose >>
    /\ baselineHipYSquat = HipSum(StandingPose)
    /\ framesSent = 3

(***************************************************************************)
(* Properties of the plank form scenario (specification SpecPlankForm).    *)
(***************************************************************************)
\* the verdict of the plank rules on a frame
PlankPriorityReason(frame) ==
    IF \E i \in {11, 12, 23, 24} : frame[i].visibility <= 500
    THEN "Position yourself in view"
    ELSE IF ~(Abs(frame[11].y - frame[12].y) < 30 /\ Abs(frame[23].y - frame[24].y) < 30)
    THEN "Keep your body straight"
    ELSE IF ~(Abs(ShoulderSum(frame) - HipSum(frame)) < 2 * 200)
    THEN "Keep your body horizontal"
    ELSE ""

\* C26: the plank verdict is 'Position yourself in view' when a shoulder or a
\* hip has visibility 0.5 or less; otherwise 'Keep your body straight' when
\* the shoulders or the hips differ in height by 0.03 or more; otherwise 'Keep
\* your body horizontal' when shoulders and hips are 0.2 or more apart in
\* height; otherwise the frame is valid.
C26_PlankVerdict ==
    [][\A pose \in PlankFormPoses :
          WholeFrame(pose)
          => /\ feedbackText' = PlankPriorityReason(pose)
             /\ plankFormValid' = (PlankPriorityReason(pose) = "")
             /\ statusText' = IF PlankPriorityReason(pose) = ""
                              THEN "Correct" ELSE "Incorrect"]_vars

\* a frame that is neither aligned nor horizontal, every shoulder and hip
\* visible and an ankle not, was reported as not straight
C26_Witness ==
    /\ previousPoseData = << Occlude(Tilted(SteepPlankPose), 27, VisibilityThreshold) >>
    /\ feedbackText = "Keep your body straight"
    /\ statusText = "Incorrect"
    /\ ~plankFormValid

(***************************************************************************)
(* Invariants of the session (specification Spec).                         *)
(***************************************************************************)
\* C28: in every reachable state a repetition state machine in phase DOWN has
\* a baseline: pushUpState = 'DOWN' implies baselineShoulderY is not null,
\* and squatState = 'DOWN' implies baselineHipYSquat is not null.
C28_DownPhaseHasBaseline ==
    /\ pushUpState = "DOWN" => baselineShoulderY # Null
    /\ squatState = "DOWN" => baselineHipYSquat # Null

\* the push-up machine is in phase DOWN, on the baseline of the top frame
C28_Witness ==
    /\ currentExercise = "pushups"
    /\ pushUpState = "DOWN"
    /\ baselineShoulderY = ShoulderSum(TopFrame)
    /\ squatState = "UP" /\ baselineHipYSquat = Null

\* C29: in every reachable state with plank form valid, the session running
\* and not paused, no pause interval is open (plankLastPauseStart is null), so
\* that the interval callback never counts an open pause interval as elapsed
\* time; and whenever plankLastPauseStart is set, plankStartTime is set.
C29_NoOpenPauseWhileCounting ==
    /\ (plankFormValid /\ isRunning /\ ~isPaused) => plankLastPauseStart = Null
    /\ plankLastPauseStart # Null => plankStartTime # Null

\* the session was paused for one clock step with valid form and resumed by
\* the pause button: the interval is folded into plankPauseTime and closed
C29_Witness ==
    /\ currentExercise = "planks"
    /\ plankFormValid /\ isRunning /\ ~isPaused
    /\ framesSent = 1 /\ ~pending
    /\ plankStartTime = ClockStepMs
    /\ plankPauseTime = ClockStepMs
    /\ plankLastPauseStart = Null

\* C30: between two resets plankElapsedTime never decreases, whatever the
\* order of frames, ticks and pause toggles (the clock never runs backwards);
\* plankElapsedTime and plankPauseTime are never negative, and plankPauseTime
\* never exceeds now - plankStartTime.
C30_ElapsedMonotonicPauseBounded ==
    /\ [][~ResetCalled => plankElapsedTime' >= plankElapsedTime]_vars
    /\ [](/\ plankElapsedTime >= 0
          /\ plankPauseTime >= 0
          /\ plankStartTime # Null => plankPauseTime <= now - plankStartTime)

\* a session two clock steps old, one of them spent in a pause interval that
\* has been folded, the other counted by the interval callback
C30_Witness ==
    /\ currentExercise = "planks"
    /\ plankStartTime # Null
    /\ now - plankStartTime = 2 * ClockStepMs
    /\ plankPauseTime = ClockStepMs
    /\ plankElapsedTime = ClockStepMs
    /\ plankLastPauseStart = Null
    /\ plankFormValid /\ isRunning /\ ~isPaused /\ plankTimerInterval

\* C31: at most one plank tick interval is scheduled at any time, and it is
\* the one whose handle is stored (a start with a handle stored schedules
\* nothing); after every handler an interval is scheduled only if
\* currentExercise is 'planks'.
C31_AtMostOneIntervalOnlyForPlanks ==
    /\ scheduledIntervals \in {0, 1}
    /\ plankTimerInterval <=> scheduledIntervals = 1
    /\ scheduledIntervals > 0 => currentExercise = "planks"

\* a plank session that counted one clock step was reset, which cleared its
\* interval, and a later frame scheduled an interval again: one is scheduled
C31_Witness ==
    /\ currentExercise = "planks"
    /\ flushDue = ClockStepMs
    /\ plankElapsedTime = 0
    /\ plankTimerInterval
    /\ scheduledIntervals = 1
    /\ framesSent = 2 /\ ~pending

\* C32: a pose result without landmarks leaves the session state unchanged:
\* counts, phases, baselines, the stored frame of the smoothing and every
\* plank timer field, plankFormValid included; so if the interval callback
\* advanced plankElapsedTime before such a result, it does so after it.
C32_NoLandmarksChangesNoSessionState ==
    [][OnPoseResults(NoLandmarks)
       => /\ UNCHANGED << pushUpCount, pushUpState, squatCount, squatState >>
          /\ UNCHANGED << baselineShoulderY, baselineHipY, baselineHipYSquat >>
          /\ UNCHANGED previousPoseData
          /\ UNCHANGED << plankStartTime, plankElapsedTime, plankPauseTime,
                          plankLastPauseStart, plankTimerInterval, plankFormValid,
                          plankTimeSaved >>
          /\ UNCHANGED << isRunning, isPaused, currentExercise, statsVars >>
          /\ (plankTimerInterval /\ TickRecomputes) => (plankTimerInterval /\ TickRecomputes)']_vars

\* the second result of a plank session had no landmarks (the status text is
\* empty while the form is still valid), and the interval callback has
\* counted every clock step since the start
C32_Witness ==
    /\ currentExercise = "planks"
    /\ statusText = "" /\ plankFormValid
    /\ isRunning /\ ~isPaused
    /\ framesSent = 2 /\ ~pending
    /\ plankStartTime # Null
    /\ plankElapsedTime = 2 * ClockStepMs
    /\ plankElapsedTime = now - plankStartTime

(***************************************************************************)
(* Counting and the verdict (specification SpecForm).                      *)
(***************************************************************************)
\* C33: counting a push-up does not depend on the verdict on the frame: a
\* frame seen in phase DOWN counts a repetition, and takes the phase to UP,
\* exactly when a baseline exists, the frame passes the safety checks, the
\* shoulders are less than 0.01 below the baseline and the average elbow angle
\* is above 110, whether the frame is judged 'Correct' or 'Incorrect'.
C33_CountingIgnoresVerdict ==
    [][\A pose \in FormPoses :
          WholeFrame(pose)
          => LET up == /\ pushUpState = "DOWN"
                       /\ baselineShoulderY # Null
                       /\ PushUpSafe(pose)
                       /\ ShoulderSum(pose) - baselineShoulderY < 2 * 10
                       /\ ElbowSum(pose) > 2 * Deg(110)
             IN  /\ pushUpCount' = IF up THEN pushUpCount + 1 ELSE pushUpCount
                 /\ up => pushUpState' = "UP"]_vars

\* a repetition was counted on a frame judged incorrect for unequal arms
C33_Witness ==
    /\ pushUpCount = 1 /\ pushUpState = "UP"
    /\ previousPoseData = << Lopsided(NearTopPose) >>
    /\ statusText = "Incorrect"
    /\ feedbackText = "Work with both arms symmetrically"

====
